---- MODULE Spec2Model ----
(***************************************************************************)
(* A model of the feedback-driven recommendation pipeline of               *)
(* TradingInsight: the JSONL event log (logging_utils.py), the feedback    *)
(* pattern miner, the full-context recommendation run (analyzer.py,        *)
(* app.py) and the staged recommendation workflow                          *)
(* (services/recommendation_agent.py).                                     *)
(*                                                                         *)
(* Text is modelled as a sequence of tokens: a JSON document is the        *)
(* sequence of its braces, keys and scalar values; "\n" ends a line.       *)
(* Floating-point quantities are kept as exact integers or fractions.      *)
(***************************************************************************)
EXTENDS Integers, Sequences, FiniteSets, TLC

(***************************************************************************)
(* Bounds of the model.                                                    *)
(***************************************************************************)
\* The number of log_event calls in one behaviour.
MaxLog == 3
\* The raw writes one flush of a buffered record may take.
MaxWrites == 2
\* The largest n_recent passed to analyze_feedback_patterns (0..MaxN).
MaxN == 2
\* The longest option chain a scan is answered with.
MaxChain == 2
\* The most recommendations that reach the ranking when it is checked alone.
MaxRecs == 6
\* The longest option chain the opportunity scanner is answered with.
MaxEntries == 2
\* The longest scan list a context is assembled for.
MaxScan == 2
\* The most positions of a portfolio given to the PortfolioService.
MaxPositions == 3
\* The largest max_retries and cache_ttl of the market-data client, how far
\* its clock runs and how often its server is invoked.
MaxRetries == 3
MaxTtl == 2
MaxTime == 3
MaxInvocations == 4
\* The longest position list of a portfolio snapshot.
MaxNet == 2
\* The clock readings after which a service is not used further.
MaxSvcTicks == 3

VARIABLES
    logExists,      \* os.path.exists(LOG_FILE)
    logFile,        \* the content of history_log.jsonl, a sequence of tokens
    clock,          \* datetime.now(), counted in log_event calls
    appended,       \* history: the (event_type, data) pairs logged since the last clear
    lastOp,         \* the operation that returned last
    readResult,     \* what read_log_history returns (lastOp = "read"), or that it raised
    patterns,       \* what analyze_feedback_patterns returns (lastOp = "analyze")
    nRecent,        \* its n_recent
    wpc,            \* per concurrent appender: where it is in log_event
    wbuf,           \* per concurrent appender: the buffered text not yet written
    wrec,           \* per concurrent appender: the line it logs
    wcount,         \* per concurrent appender: the raw writes made so far
    runPc,          \* the opportunity scanner: where one script run is
    analyzerReady,  \* the Analyzer of the run has its mcp_client and llm_client
    feedbackContext,\* feedback_context, from get_recent_feedback_summary(5)
    runPatterns,    \* feedback_patterns of generate_full_context_recommendations
    runRecs,        \* the recommendations decoded from the LLM output
    runStartLog,    \* history: what the log held when the scan was started
    runLogged,      \* history: the events this run has logged
    agPc,           \* recommendation run: 0 idle, k the next stage, 9 workflow returned
    state,          \* the RecommendationState of the run
    agOutcome,      \* what find_opportunities gave its caller
    mcpAnswers,     \* what get_option_chain / get_quote answered, per scope stock
    agRan,          \* history: the stages executed in this run
    agAtError,      \* history: the run as it was when error was first set
    scanArgs,       \* opportunity_scanner: stock_list, thresholds, the chains fetched
    scanResult,     \* opportunity_scanner: what scan_opportunities returned
    ctxPc,          \* get_full_context: where the assembly is
    ctxArgs,        \* get_full_context: scan_list and the clients of the Analyzer
    context,        \* get_full_context: the bundle being assembled
    ctxCalls,       \* history: the client calls of the assembly, in order
    pf,             \* PortfolioService: the portfolio fetched and what was computed
    mc,             \* services.mcp_client.MCPClient: settings, cache, clock, server
    snap,           \* app.py: the portfolio snapshots of the session
    svc             \* AnalysisService / RecommendationService: cache and clock

logVars == <<logExists, logFile, clock, appended, lastOp, readResult, patterns, nRecent>>
concVars == <<wpc, wbuf, wrec, wcount>>
agentVars == <<agPc, state, agOutcome, mcpAnswers, agRan, agAtError>>
scanVars == <<scanArgs, scanResult>>
ctxVars == <<ctxPc, ctxArgs, context, ctxCalls>>
svcVars == <<pf, mc, snap, svc>>
runVars == <<runPc, analyzerReady, feedbackContext, runPatterns, runRecs, runStartLog, runLogged>>

(***************************************************************************)
(* Generic helpers.                                                        *)
(***************************************************************************)
Min(a, b) == IF a <= b THEN a ELSE b
Max(a, b) == IF a >= b THEN a ELSE b

IsPrefix(s, t) == Len(s) <= Len(t) /\ SubSeq(t, 1, Len(s)) = s

RECURSIVE SumSeq(_)
SumSeq(s) == IF s = <<>> THEN 0 ELSE Head(s) + SumSeq(Tail(s))

\* A Python dict is a function from its keys; d.get(k, default).
EmptyDict == <<>>
DictGet(d, k, default) == IF k \in DOMAIN d THEN d[k] ELSE default
DictPut(d, k, v) == [x \in (DOMAIN d) \cup {k} |-> IF x = k THEN v ELSE d[x]]

(***************************************************************************)
(* JSON text (json.dumps / json.loads), token by token.                    *)
(***************************************************************************)
NL == "\n"
Structural == {"{", "}", NL}
\* The decimal text of the numbers the payloads carry.
NumText == <<"0", "1", "2", "3", "4", "5", "6", "7", "8", "9">>
NumToks == {NumText[i] : i \in 1..Len(NumText)}
\* Keys whose values are numbers; every other value is a string.
NumericKeys == {"risk"}
\* The order in which json.dumps emits the keys of a payload.
KeyOrder == <<"symbol", "option_type", "risk", "reason">>

EncodeScalar(k, v) == IF k \in NumericKeys THEN NumText[v + 1] ELSE v
DecodeScalar(tok) ==
    IF tok \in NumToks THEN (CHOOSE n \in 0..(Len(NumText) - 1) : NumText[n + 1] = tok)
    ELSE tok

RECURSIVE DumpsMembers(_, _)
DumpsMembers(d, order) ==
    IF order = <<>> THEN <<>>
    ELSE (IF Head(order) \in DOMAIN d
          THEN <<Head(order), EncodeScalar(Head(order), d[Head(order)])>>
          ELSE <<>>) \o DumpsMembers(d, Tail(order))

\* json.dumps of a flat payload dict.
DumpsData(d) == <<"{">> \o DumpsMembers(d, KeyOrder) \o <<"}">>

\* json.dumps(entry) for entry = {timestamp, event_type, data}.
JsonDumps(entry) ==
    <<"{", "timestamp", entry.timestamp, "event_type", entry.event_type, "data">>
    \o DumpsData(entry.data) \o <<"}">>

ParseFail == [ok |-> FALSE, value |-> EmptyDict, next |-> 0]

\* The members of an object from position i on, up to its closing brace;
\* a member's value is a scalar or a nested object.
RECURSIVE ParseMembers(_, _, _)
ParseMembers(toks, i, acc) ==
    IF i > Len(toks) THEN ParseFail
    ELSE IF toks[i] = "}" THEN [ok |-> TRUE, value |-> acc, next |-> i + 1]
    ELSE IF toks[i] \in Structural \cup NumToks \/ i + 1 > Len(toks) THEN ParseFail
    ELSE IF toks[i + 1] = "{"
         THEN LET inner == ParseMembers(toks, i + 2, EmptyDict)
              IN  IF ~inner.ok THEN ParseFail
                  ELSE ParseMembers(toks, inner.next, DictPut(acc, toks[i], inner.value))
    ELSE IF toks[i + 1] \in Structural THEN ParseFail
    ELSE ParseMembers(toks, i + 2, DictPut(acc, toks[i], DecodeScalar(toks[i + 1])))

\* str.strip() of a line: its tokens without the line ends.
Strip(line) == SelectSeq(line, LAMBDA t : t # NL)

\* json.loads(line): the object, or ok = FALSE where it raises JSONDecodeError.
JsonLoads(line) ==
    LET toks == Strip(line)
        r == IF toks # <<>> /\ toks[1] = "{" THEN ParseMembers(toks, 2, EmptyDict)
             ELSE ParseFail
    IN  IF r.ok /\ r.next = Len(toks) + 1 THEN r ELSE ParseFail

\* Iterating over a text file: the lines, each with its line end.
RECURSIVE SplitFrom(_, _, _)
SplitFrom(toks, i, line) ==
    IF i > Len(toks) THEN (IF line = <<>> THEN <<>> ELSE <<line>>)
    ELSE IF toks[i] = NL THEN <<Append(line, NL)>> \o SplitFrom(toks, i + 1, <<>>)
    ELSE SplitFrom(toks, i + 1, Append(line, toks[i]))

SplitLines(toks) == SplitFrom(toks, 1, <<>>)

(***************************************************************************)
(* logging_utils.py                                                        *)
(***************************************************************************)
\* datetime.now().isoformat()
IsoText == <<"t0", "t1", "t2", "t3", "t4", "t5", "t6", "t7">>
IsoFormat(t) == IsoText[t + 1]

\* Variant: the record written without its line end.
EntryLineNoNewline(t, event_type, data) ==
    JsonDumps([timestamp |-> IsoFormat(t), event_type |-> event_type, data |-> data])

\* The record log_event writes: one line.
EntryLine(t, event_type, data) ==
    JsonDumps([timestamp |-> IsoFormat(t), event_type |-> event_type, data |-> data])
    \o <<NL>>

\* Variant: the file opened with mode "w", which truncates it.
LogEventWriteTruncating(file, line) == line

\* open(LOG_FILE, "a") and f.write(line): the file after the call.
LogEventWrite(file, line) == file \o line

\* read_log_history: the events, or ok = FALSE where json.loads raises.
ReadLogHistory(exists, file) ==
    IF ~exists THEN [ok |-> TRUE, events |-> <<>>]
    ELSE LET lines == SelectSeq(SplitLines(file), LAMBDA l : Strip(l) # <<>>)
         IN  IF \E i \in 1..Len(lines) : ~JsonLoads(lines[i]).ok
             THEN [ok |-> FALSE, events |-> <<>>]
             ELSE [ok |-> TRUE,
                   events |-> [i \in 1..Len(lines) |-> JsonLoads(lines[i]).value]]

FeedbackTypes == {"user_action:accepted", "user_action:rejected"}

\* seq[-n:] of Python, n >= 0: -0 is 0, so seq[-0:] is the whole sequence.
PySliceLast(seq, n) ==
    IF n = 0 THEN seq
    ELSE SubSeq(seq, Max(Len(seq) - n, 0) + 1, Len(seq))

ZeroCount == [accepted |-> 0, rejected |-> 0]
\* Variant: the outcome compared with the bare verb, which never matches.
ActionBareVerb(log) == IF log.event_type = "accepted" THEN "accepted" ELSE "rejected"

Action(log) == IF log.event_type = "user_action:accepted" THEN "accepted" ELSE "rejected"

\* stats[key][action] += 1, the entry created on first use.
Bump(stats, key, action) ==
    LET cur == DictGet(stats, key, ZeroCount)
    IN  DictPut(stats, key, [cur EXCEPT ![action] = @ + 1])

\* Variant: "if risk:", which drops a risk of 0.
RiskCarriedTruthy(data) == "risk" \in DOMAIN data /\ data.risk # 0

\* if risk is not None: risk_stats[action].append(risk)
RiskCarried(data) == "risk" \in DOMAIN data

\* The loop over feedback_logs of analyze_feedback_patterns.
RECURSIVE FeedbackLoop(_, _)
FeedbackLoop(logs, acc) ==
    IF logs = <<>> THEN acc
    ELSE LET log == Head(logs)
             action == Action(log)
             data == log.data
             symbol == DictGet(data, "symbol", "UNKNOWN")
             option_type == DictGet(data, "option_type", "UNKNOWN")
         IN  FeedbackLoop(Tail(logs),
                 [symbol_stats |-> Bump(acc.symbol_stats, symbol, action),
                  option_type_stats |-> Bump(acc.option_type_stats, option_type, action),
                  risk_stats |-> IF RiskCarried(data)
                                 THEN [acc.risk_stats EXCEPT ![action] = Append(@, data.risk)]
                                 ELSE acc.risk_stats])

\* sum(xs) / len(xs) if xs else None, the quotient kept as a fraction.
NoneAvg == [isNone |-> TRUE, sum |-> 0, len |-> 0]
AvgOrNone(xs) == IF xs # <<>> THEN [isNone |-> FALSE, sum |-> SumSeq(xs), len |-> Len(xs)]
                 ELSE NoneAvg

\* feedback_logs of analyze_feedback_patterns(n_recent).
FeedbackLogs(logs, n_recent) ==
    PySliceLast(SelectSeq(logs, LAMBDA log : log.event_type \in FeedbackTypes), n_recent)

\* analyze_feedback_patterns(n_recent) over the events read_log_history returned.
AnalyzeFeedbackPatterns(logs, n_recent) ==
    LET feedback_logs == FeedbackLogs(logs, n_recent)
        acc == FeedbackLoop(feedback_logs,
                   [symbol_stats |-> EmptyDict, option_type_stats |-> EmptyDict,
                    risk_stats |-> [accepted |-> <<>>, rejected |-> <<>>]])
    IN  [symbol_stats |-> acc.symbol_stats,
         option_type_stats |-> acc.option_type_stats,
         avg_risk |-> [accepted |-> AvgOrNone(acc.risk_stats.accepted),
                       rejected |-> AvgOrNone(acc.risk_stats.rejected)],
         total_feedback |-> Len(feedback_logs)]

NoPatterns == AnalyzeFeedbackPatterns(<<>>, 1)
NoRead == [ok |-> TRUE, events |-> <<>>]

(***************************************************************************)
(* The inputs of the event log.                                            *)
(***************************************************************************)
Payloads ==
    { [symbol |-> "RELIANCE", option_type |-> "CE", risk |-> 0],
      [symbol |-> "TCS", risk |-> 4],
      [option_type |-> "PE"] }
\* The (event_type, data) pairs logged: feedback on a recommendation, and a
\* position change, which is no feedback.
LogInputs ==
    (FeedbackTypes \X Payloads) \cup {<<"user_action:buy", [symbol |-> "TCS", risk |-> 4]>>}

(***************************************************************************)
(* The event log used by one caller at a time.                             *)
(***************************************************************************)
LogInit ==
    /\ logExists = FALSE
    /\ logFile = <<>>
    /\ clock = 0
    /\ appended = <<>>
    /\ lastOp = "init"
    /\ readResult = NoRead
    /\ patterns = NoPatterns
    /\ nRecent = 0

\* log_event(event_type, data)
LogEvent(event_type, data) ==
    /\ clock < MaxLog
    /\ logExists' = TRUE
    /\ logFile' = LogEventWrite(logFile, EntryLine(clock, event_type, data))
    /\ clock' = clock + 1
    /\ appended' = Append(appended, [event_type |-> event_type, data |-> data])
    /\ lastOp' = "append"
    /\ readResult' = NoRead
    /\ patterns' = NoPatterns /\ nRecent' = 0
    /\ UNCHANGED <<concVars, runVars, agentVars, scanVars, ctxVars, svcVars>>

\* read_log_history()
ReadAll ==
    /\ readResult' = ReadLogHistory(logExists, logFile)
    /\ lastOp' = "read"
    /\ patterns' = NoPatterns /\ nRecent' = 0
    /\ UNCHANGED <<logExists, logFile, clock, appended>>
    /\ UNCHANGED <<concVars, runVars, agentVars, scanVars, ctxVars, svcVars>>

\* clear_log_history()
ClearLogHistory ==
    /\ logExists' = FALSE
    /\ logFile' = <<>>
    /\ appended' = <<>>
    /\ lastOp' = "clear"
    /\ readResult' = NoRead
    /\ patterns' = NoPatterns /\ nRecent' = 0
    /\ UNCHANGED clock
    /\ UNCHANGED <<concVars, runVars, agentVars, scanVars, ctxVars, svcVars>>

\* analyze_feedback_patterns(n_recent)
AnalyzePatterns(n_recent) ==
    /\ LET logs == ReadLogHistory(logExists, logFile)
       IN  /\ logs.ok
           /\ patterns' = AnalyzeFeedbackPatterns(logs.events, n_recent)
    /\ nRecent' = n_recent
    /\ lastOp' = "analyze"
    /\ readResult' = NoRead
    /\ UNCHANGED <<logExists, logFile, clock, appended>>
    /\ UNCHANGED <<concVars, runVars, agentVars, scanVars, ctxVars, svcVars>>

LogNext ==
    \/ \E inp \in LogInputs : LogEvent(inp[1], inp[2])
    \/ ReadAll
    \/ ClearLogHistory
    \/ \E n_recent \in 0..MaxN : AnalyzePatterns(n_recent)

(***************************************************************************)
(* The event log used by concurrent appenders (one Streamlit session       *)
(* thread each) and a reader.  log_event takes no lock: the record is      *)
(* buffered by f.write and reaches the file when the with-block closes f,  *)
(* in as many raw writes as the operating system takes; every raw write of *)
(* a file opened with mode "a" lands at the end of the file.               *)
(***************************************************************************)
Appenders == {"A", "B"}
ConcInputs ==
    { <<"user_action:accepted", [symbol |-> "RELIANCE", option_type |-> "CE", risk |-> 0]>>,
      <<"user_action:rejected", [option_type |-> "PE"]>> }

ConcInit ==
    /\ wpc = [a \in Appenders |-> "idle"]
    /\ wbuf = [a \in Appenders |-> <<>>]
    /\ wrec = [a \in Appenders |-> <<>>]
    /\ wcount = [a \in Appenders |-> 0]

\* log_event up to f.write: the entry gets its timestamp, open(LOG_FILE, "a")
\* creates the file, and the line is in the buffer of f.
BeginLogEvent(a, event_type, data) ==
    /\ wpc[a] = "idle"
    /\ logExists' = TRUE
    /\ wbuf' = [wbuf EXCEPT ![a] = EntryLine(clock, event_type, data)]
    /\ wrec' = [wrec EXCEPT ![a] = EntryLine(clock, event_type, data)]
    /\ wpc' = [wpc EXCEPT ![a] = "open"]
    /\ clock' = clock + 1
    /\ lastOp' = "append"
    /\ readResult' = NoRead
    /\ UNCHANGED <<logFile, appended, patterns, nRecent, wcount>>
    /\ UNCHANGED <<runVars, agentVars, scanVars, ctxVars, svcVars>>

\* Leaving the with-block flushes the buffer: one raw write takes the first k
\* tokens of what is left; the file is closed when nothing is left.
FlushLogEvent(a, k) ==
    /\ wpc[a] = "open"
    /\ k \in 1..Len(wbuf[a])
    /\ (wcount[a] + 1 = MaxWrites => k = Len(wbuf[a]))
    /\ logFile' = LogEventWrite(logFile, SubSeq(wbuf[a], 1, k))
    /\ wbuf' = [wbuf EXCEPT ![a] = SubSeq(@, k + 1, Len(@))]
    /\ wcount' = [wcount EXCEPT ![a] = @ + 1]
    /\ wpc' = [wpc EXCEPT ![a] = IF k = Len(wbuf[a]) THEN "done" ELSE "open"]
    /\ lastOp' = "append"
    /\ readResult' = NoRead
    /\ UNCHANGED <<logExists, clock, appended, patterns, nRecent, wrec>>
    /\ UNCHANGED <<runVars, agentVars, scanVars, ctxVars, svcVars>>

ConcNext ==
    \/ \E a \in Appenders, inp \in ConcInputs : BeginLogEvent(a, inp[1], inp[2])
    \/ \E a \in Appenders : \E k \in 1..Len(wbuf[a]) : FlushLogEvent(a, k)
    \/ ReadAll

(***************************************************************************)
(* app.py render_opportunity_scanner and                                   *)
(* Analyzer.generate_full_context_recommendations: one Streamlit session.  *)
(* What st.button returns is an input.                                     *)
(***************************************************************************)
\* analyze_feedback_patterns(50) in generate_full_context_recommendations
RunNRecent == 50
\* get_recent_feedback_summary(5) in render_opportunity_scanner
SummaryN == 5

\* get_recent_feedback_summary(n): one line per feedback event of logs[-n:].
GetRecentFeedbackSummary(logs, n) ==
    LET feedback_logs == SelectSeq(logs, LAMBDA log : log.event_type \in FeedbackTypes)
        recent == PySliceLast(feedback_logs, n)
    IN  IF feedback_logs = <<>> THEN [none |-> TRUE, lines |-> <<>>]
        ELSE [none |-> FALSE,
              lines |-> [i \in 1..Len(recent) |->
                            [action |-> IF recent[i].event_type = "user_action:accepted"
                                        THEN "ACCEPTED" ELSE "REJECTED",
                             symbol |-> DictGet(recent[i].data, "symbol", ""),
                             reason |-> DictGet(recent[i].data, "reason", "")]]]

\* The recommendations an LLM answer decodes to (none: the answer holds no JSON).
LlmRecs ==
    { <<>>,
      << [symbol |-> "RELIANCE", option_type |-> "CE", risk |-> 0] >>,
      << [symbol |-> "TCS", risk |-> 4], [option_type |-> "PE"] >> }
\* The button pressed and the text of the reason field beside it.
FeedbackInputs == { <<"accepted", "">>, <<"rejected", "risky">> }

\* Variant: buttons for an earlier recommendation, there throughout the run.
ButtonRecsEarly(pc, recs) ==
    IF pc = "generated" THEN recs ELSE << [symbol |-> "TCS", risk |-> 4] >>
\* The recommendations that have accept/reject buttons: the decoded ones, and
\* only once the LLM output is there.  Any decoded record may get feedback,
\* whichever columns it has.
ButtonRecs(pc, recs) == IF pc = "generated" THEN recs ELSE <<>>

RunInit ==
    /\ runPc = "idle"
    /\ analyzerReady = FALSE
    /\ feedbackContext = [none |-> TRUE, lines |-> <<>>]
    /\ runPatterns = NoPatterns
    /\ runRecs = <<>>
    /\ runStartLog = <<>>
    /\ runLogged = 0

\* render_opportunity_scanner down to the button: the feedback summary is read.
RenderScanner ==
    /\ runPc = "idle"
    /\ ReadLogHistory(logExists, logFile).ok
    /\ feedbackContext' = GetRecentFeedbackSummary(ReadLogHistory(logExists, logFile).events,
                                                   SummaryN)
    /\ runPc' = "rendered"
    /\ UNCHANGED <<analyzerReady, runPatterns, runRecs, runStartLog, runLogged>>
    /\ UNCHANGED <<logVars, concVars, agentVars, scanVars, ctxVars, svcVars>>

\* "Scan for Opportunities (AI)" is pressed with a scan list: Analyzer().
ClickScan(ready) ==
    /\ runPc = "rendered"
    /\ analyzerReady' = ready
    /\ runStartLog' = ReadLogHistory(logExists, logFile).events
    /\ runPc' = "scanning"
    /\ UNCHANGED <<feedbackContext, runPatterns, runRecs, runLogged>>
    /\ UNCHANGED <<logVars, concVars, agentVars, scanVars, ctxVars, svcVars>>

\* analyzer.analyze_news_sentiment_for_stocks(scan_list): one LLM call per
\* symbol; without an llm_client the first call raises and the script ends.
NewsSentiment ==
    /\ runPc = "scanning"
    /\ runPc' = IF analyzerReady THEN "sentiment" ELSE "failed"
    /\ UNCHANGED <<analyzerReady, feedbackContext, runPatterns, runRecs, runStartLog, runLogged>>
    /\ UNCHANGED <<logVars, concVars, agentVars, scanVars, ctxVars, svcVars>>

\* generate_full_context_recommendations, its first statement:
\* feedback_patterns = analyze_feedback_patterns(50).
MineFeedback ==
    /\ runPc = "sentiment"
    /\ ReadLogHistory(logExists, logFile).ok
    /\ runPatterns' = AnalyzeFeedbackPatterns(ReadLogHistory(logExists, logFile).events,
                                              RunNRecent)
    /\ runPc' = "mined"
    /\ UNCHANGED <<analyzerReady, feedbackContext, runRecs, runStartLog, runLogged>>
    /\ UNCHANGED <<logVars, concVars, agentVars, scanVars, ctxVars, svcVars>>

\* context = await self.get_full_context(...) and the prompt built from it;
\* a fetch or a missing section may raise, which ends the script.
GetFullContext(raises) ==
    /\ runPc = "mined"
    /\ runPc' = IF raises THEN "failed" ELSE "context"
    /\ UNCHANGED <<analyzerReady, feedbackContext, runPatterns, runRecs, runStartLog, runLogged>>
    /\ UNCHANGED <<logVars, concVars, agentVars, scanVars, ctxVars, svcVars>>

\* recommendations = await self.llm_client.generate_response(prompt), and the
\* JSON array app.py finds in it.
GenerateResponse(recs) ==
    /\ runPc = "context"
    /\ runRecs' = recs
    /\ runPc' = "generated"
    /\ UNCHANGED <<analyzerReady, feedbackContext, runPatterns, runStartLog, runLogged>>
    /\ UNCHANGED <<logVars, concVars, agentVars, scanVars, ctxVars, svcVars>>

\* "Accept AI i" / "Reject AI i": log_user_action(verdict, {**rec, "reason": reason}).
Feedback(i, verdict, reason) ==
    /\ runPc \notin {"idle", "failed"}
    /\ i \in 1..Len(ButtonRecs(runPc, runRecs))
    /\ clock < MaxLog
    /\ LET event_type == IF verdict = "accepted" THEN "user_action:accepted"
                         ELSE "user_action:rejected"
           data == DictPut(ButtonRecs(runPc, runRecs)[i], "reason", reason)
       IN  /\ logExists' = TRUE
           /\ logFile' = LogEventWrite(logFile, EntryLine(clock, event_type, data))
           /\ appended' = Append(appended, [event_type |-> event_type, data |-> data])
    /\ clock' = clock + 1
    /\ lastOp' = "append"
    /\ runLogged' = runLogged + 1
    /\ UNCHANGED <<readResult, patterns, nRecent>>
    /\ UNCHANGED <<runPc, analyzerReady, feedbackContext, runPatterns, runRecs, runStartLog>>
    /\ UNCHANGED <<concVars, agentVars, scanVars, ctxVars, svcVars>>

\* The script run ends; the next one starts from the top.
EndRun ==
    /\ runPc \in {"generated", "failed"}
    /\ runPc' = "idle"
    /\ analyzerReady' = FALSE
    /\ feedbackContext' = [none |-> TRUE, lines |-> <<>>]
    /\ runPatterns' = NoPatterns
    /\ runRecs' = <<>>
    /\ runStartLog' = <<>>
    /\ runLogged' = 0
    /\ UNCHANGED <<logVars, concVars, agentVars, scanVars, ctxVars, svcVars>>

RunNext ==
    \/ RenderScanner
    \/ \E ready \in BOOLEAN : ClickScan(ready)
    \/ NewsSentiment
    \/ MineFeedback
    \/ \E raises \in BOOLEAN : GetFullContext(raises)
    \/ \E recs \in LlmRecs : GenerateResponse(recs)
    \/ \E i \in 1..2, inp \in FeedbackInputs : Feedback(i, inp[1], inp[2])
    \/ EndRun

(***************************************************************************)
(* services/recommendation_agent.py: RecommendationAgent.  Floats are      *)
(* fixed-point numbers, Scale to the unit; the inputs are chosen so that   *)
(* every quotient is exact.  The text fields of a recommendation           *)
(* (trade_driver, reasoning, portfolio_impact, risk_assessment) and        *)
(* expiry, quantity and price_range are left out.                          *)
(***************************************************************************)
Scale == 100
Pct(num, den) == (num * 100 * Scale) \div den

NoError == [set |-> FALSE, msg |-> ""]
Error(msg) == [set |-> TRUE, msg |-> msg]

\* An option chain entry: a dict, or something that is not one.
Options ==
    { [isDict |-> TRUE,
       d |-> [option_type |-> "PE", premium |-> 500, margin_required |-> 10000,
              strike_price |-> 90000]],
      [isDict |-> TRUE,
       d |-> [option_type |-> "CE", premium |-> 2000, margin_required |-> 10000,
              strike_price |-> 95000]],
      [isDict |-> TRUE,
       d |-> [option_type |-> "CE", premium |-> 1200, margin_required |-> 10000,
              strike_price |-> 94000]],
      [isDict |-> TRUE,
       d |-> [option_type |-> "PE", premium |-> -500, margin_required |-> 10000,
              strike_price |-> 92000]],
      [isDict |-> FALSE, d |-> [text |-> "n/a"]] }
\* A chain one entry longer than the scan takes.
LongChain ==
    [i \in 1..11 |->
        IF i = 11 THEN [isDict |-> FALSE, d |-> [text |-> "n/a"]]
        ELSE [isDict |-> TRUE,
              d |-> [option_type |-> IF i % 2 = 1 THEN "PE" ELSE "CE",
                     premium |-> 500 * i, margin_required |-> 10000,
                     strike_price |-> 90000]]]
Chains == UNION { [1..k -> Options] : k \in 0..MaxChain } \cup {LongChain}
Quote == [last_price |-> 100000]
\* What get_option_chain and get_quote answer for one stock: a chain and a
\* quote, or an exception.
ScanAnswers ==
    {[ok |-> FALSE, chain |-> <<>>, quote |-> Quote]}
        \cup {[ok |-> TRUE, chain |-> c, quote |-> Quote] : c \in Chains}
ScanAnswersShort ==
    { [ok |-> FALSE, chain |-> <<>>, quote |-> Quote],
      [ok |-> TRUE, quote |-> Quote,
       chain |-> << [isDict |-> TRUE,
                     d |-> [option_type |-> "CE", premium |-> 2000,
                            margin_required |-> 10000, strike_price |-> 95000]] >>] }

\* What market_analyst.analyze_sentiment answers: an analysis, or an exception.
NoAnalysis == [present |-> FALSE, short_term_sentiment |-> "", short_term_confidence |-> 0]
Analyses ==
    { NoAnalysis,
      [present |-> TRUE, short_term_sentiment |-> "Strongly Positive",
       short_term_confidence |-> 9 * Scale],
      [present |-> TRUE, short_term_sentiment |-> "Moderately Negative",
       short_term_confidence |-> 7 * Scale] }
HasNegative(sentiment) ==
    sentiment \in {"Cautiously Negative", "Moderately Negative", "Strongly Negative"}
HasPositive(sentiment) ==
    sentiment \in {"Cautiously Positive", "Moderately Positive", "Strongly Positive"}

\* settings.stock_scope.approved_stocks
ScopeStocks == <<"TCS", "RELIANCE">>

\* The portfolio argument: positions, sector_exposure (in dict order) and cash.
Portfolios ==
    { [positions |-> << [symbol |-> "TCS", risk_indicator |-> 9] >>,
       sector_exposure |-> << [sector |-> "IT", exposure |-> 5] >>,
       available_cash |-> 500000],
      [positions |-> << [symbol |-> "RELIANCE", risk_indicator |-> 3] >>,
       sector_exposure |-> << [sector |-> "Banking", exposure |-> 40] >>,
       available_cash |-> 0] }

\* The filters argument, a Dict[str, Any]: the values, and the keys whose
\* value is not a number.
FilterArgs ==
    { [d |-> [min_ssr |-> 2, min_premium |-> 5, min_rom |-> 5, max_risk |-> 7],
       nonNumeric |-> {}],
      [d |-> [min_rom |-> 10 * Scale], nonNumeric |-> {}],
      [d |-> [min_ssr |-> 2, min_premium |-> 5, min_rom |-> 5, max_risk |-> 7],
       nonNumeric |-> {"min_rom"}] }

NewState(portfolio, filters) ==
    [portfolio |-> portfolio, filters |-> filters, scope_stocks |-> ScopeStocks,
     opportunities |-> <<>>, recommendations |-> <<>>, market_analyses |-> EmptyDict,
     final_recommendations |-> <<>>, confidence_scores |-> EmptyDict, error |-> NoError]

MapSeq(F(_), s) == [i \in 1..Len(s) |-> F(s[i])]
\* Variant: no cap.
TakeAll(s, n) == s
Take(s, n) == SubSeq(s, 1, Min(n, Len(s)))

\* _identify_low_exposure_sectors: the sectors below 10% exposure.
LowExposureThreshold == 10
IdentifyLowExposureSectors(sector_exposure) ==
    MapSeq(LAMBDA e : e.sector,
           SelectSeq(sector_exposure, LAMBDA e : e.exposure < LowExposureThreshold))

\* _identify_high_risk_positions
HighRiskThreshold == 8
IdentifyHighRiskPositions(positions) ==
    SelectSeq(positions, LAMBDA pos : pos.risk_indicator >= HighRiskThreshold)

\* _calculate_rom: (premium / margin_required) * 100, capped at 100; 0.0 when
\* the margin is not positive or anything raises.
CalculateRom(option) ==
    IF ~option.isDict THEN 0
    ELSE LET premium == DictGet(option.d, "premium", 0)
             margin_required == DictGet(option.d, "margin_required", 1 * Scale)
         IN  IF margin_required > 0
             THEN Min(Pct(premium, margin_required), 100 * Scale)
             ELSE 0

\* _calculate_ssr: ((spot - strike) / spot) * 100, floored at 0.
CalculateSsr(option, quote) ==
    IF ~option.isDict THEN 0
    ELSE LET spot_price == DictGet(quote, "last_price", 1000 * Scale)
             strike_price == DictGet(option.d, "strike_price", 1000 * Scale)
         IN  IF spot_price > 0
             THEN Max(Pct(spot_price - strike_price, spot_price), 0)
             ELSE 0

\* Variant: the risk indicator without the adjustment for a put.
RiskIndicatorNoPut(option, analysis) ==
    IF ~option.isDict THEN 5
    ELSE Max(1, Min(10, 5 + (IF analysis.present
                             THEN IF HasNegative(analysis.short_term_sentiment) THEN 2
                                  ELSE IF HasPositive(analysis.short_term_sentiment)
                                       THEN -1 ELSE 0
                             ELSE 0)))

\* _calculate_risk_indicator: 5, +2 / -1 by sentiment, +1 for a put, clamped
\* to 1..10; 5 when the option is not a dict (option.get raises).
CalculateRiskIndicator(option, analysis) ==
    IF ~option.isDict THEN 5
    ELSE LET bySentiment ==
                 IF analysis.present
                 THEN IF HasNegative(analysis.short_term_sentiment) THEN 2
                      ELSE IF HasPositive(analysis.short_term_sentiment) THEN -1 ELSE 0
                 ELSE 0
             byType == IF DictGet(option.d, "option_type", "") = "PE" THEN 1 ELSE 0
         IN  Max(1, Min(10, 5 + bySentiment + byType))

\* state.market_analyses.get(symbol)
AnalysisOf(st, symbol) == DictGet(st.market_analyses, symbol, NoAnalysis)

\* _scan_opportunities: the records of one stock, from the first 10 chain entries.
ChainCap == 10
ScanStock(stock, answer) ==
    IF ~answer.ok THEN <<>>
    ELSE MapSeq(LAMBDA option : [symbol |-> stock, option |-> option,
                                 quote |-> answer.quote, analysis_needed |-> TRUE],
                Take(answer.chain, ChainCap))

RECURSIVE ScanLoop(_, _, _)
ScanLoop(stocks, answers, i) ==
    IF i > Len(stocks) THEN <<>>
    ELSE ScanStock(stocks[i], answers[i]) \o ScanLoop(stocks, answers, i + 1)

\* _calculate_metrics, one opportunity.
WithMetrics(st, opportunity) ==
    IF "option" \in DOMAIN opportunity
    THEN LET option == opportunity.option
             rom == CalculateRom(option)
             ssr == CalculateSsr(option, DictGet(opportunity, "quote", EmptyDict))
             risk == CalculateRiskIndicator(option, AnalysisOf(st, opportunity.symbol))
         IN  DictPut(DictPut(DictPut(DictPut(opportunity, "rom", rom), "ssr", ssr),
                             "risk_indicator", risk), "metrics_calculated", TRUE)
    ELSE opportunity

\* _apply_filters: the thresholds, with their defaults.
MinSsr(filters) == DictGet(filters.d, "min_ssr", 2)
MinPremium(filters) == DictGet(filters.d, "min_premium", 5)
MinRom(filters) == DictGet(filters.d, "min_rom", 5)
MaxRisk(filters) == DictGet(filters.d, "max_risk", 7)

\* The filter criteria of one opportunity raise: the option has no .get, or
\* a comparison reaches a threshold that is not a number ("and" stops at the
\* first false operand).
FilterRaises(filters, opportunity) ==
    \/ ~opportunity.option.isDict
    \/ "min_rom" \in filters.nonNumeric
    \/ /\ opportunity.rom >= MinRom(filters)
       /\ \/ "min_ssr" \in filters.nonNumeric
          \/ /\ opportunity.ssr >= MinSsr(filters)
             /\ \/ "min_premium" \in filters.nonNumeric
                \/ /\ DictGet(opportunity.option.d, "premium", 0) >= MinPremium(filters)
                   /\ "max_risk" \in filters.nonNumeric

FilterPasses(filters, opportunity) ==
    /\ opportunity.rom >= MinRom(filters)
    /\ opportunity.ssr >= MinSsr(filters)
    /\ DictGet(opportunity.option.d, "premium", 0) >= MinPremium(filters)
    /\ opportunity.risk_indicator <= MaxRisk(filters)

RECURSIVE FilterLoop(_, _, _)
FilterLoop(filters, opportunities, acc) ==
    IF opportunities = <<>> THEN [raised |-> FALSE, kept |-> acc]
    ELSE LET opportunity == Head(opportunities)
         IN  IF "metrics_calculated" \in DOMAIN opportunity
             THEN IF FilterRaises(filters, opportunity)
                  THEN [raised |-> TRUE, kept |-> acc]
                  ELSE FilterLoop(filters, Tail(opportunities),
                                  IF FilterPasses(filters, opportunity)
                                  THEN Append(acc, opportunity) ELSE acc)
             ELSE FilterLoop(filters, Tail(opportunities), acc)

\* _should_hedge: the stub.
ShouldHedge(opportunity, portfolio) == FALSE

\* Variant: a swap whenever any position is high-risk, whatever its symbol.
RecommendationTypeAnySymbol(opportunity, portfolio) ==
    IF \E i \in 1..Len(portfolio.positions) :
           portfolio.positions[i].risk_indicator >= HighRiskThreshold
    THEN "swap trade"
    ELSE "new trade"

\* _determine_recommendation_type
DetermineRecommendationType(opportunity, portfolio) ==
    IF \E i \in 1..Len(portfolio.positions) :
           /\ portfolio.positions[i].symbol = opportunity.symbol
           /\ portfolio.positions[i].risk_indicator >= HighRiskThreshold
    THEN "swap trade"
    ELSE IF ShouldHedge(opportunity, portfolio) THEN "hedge trade" ELSE "new trade"

\* Variant: a model without the range constraints.
ValidRecommendationUnchecked(rec) == rec.confidence = rec.confidence

\* models/data_models.py TradeRecommendation: the field constraints.
ValidRecommendation(rec) ==
    /\ rec.confidence >= 0 /\ rec.confidence <= 10 * Scale
    /\ rec.expected_rom >= 0 /\ rec.expected_rom <= 100 * Scale
    /\ rec.expected_ssr >= 0 /\ rec.expected_ssr <= 100 * Scale

\* _create_recommendation: a recommendation, or None when anything raises.
DefaultConfidence == 7
CreateRecommendation(opportunity, st) ==
    LET option == opportunity.option
        analysis == AnalysisOf(st, opportunity.symbol)
        rec == [recommendation_type |->
                    DetermineRecommendationType(opportunity, st.portfolio),
                symbol |-> opportunity.symbol,
                option_type |-> DictGet(option.d, "option_type", "PE"),
                strike_price |-> DictGet(option.d, "strike_price", 0),
                confidence |-> IF analysis.present THEN analysis.short_term_confidence
                               ELSE DefaultConfidence * Scale,
                expected_rom |-> DictGet(opportunity, "rom", 0),
                expected_ssr |-> DictGet(opportunity, "ssr", 0)]
    IN  IF option.isDict /\ ValidRecommendation(rec)
        THEN [none |-> FALSE, rec |-> rec]
        ELSE [none |-> TRUE, rec |-> rec]

RECURSIVE GenerateLoop(_, _, _)
GenerateLoop(st, opportunities, acc) ==
    IF opportunities = <<>> THEN acc
    ELSE LET opportunity == Head(opportunities)
             made == CreateRecommendation(opportunity, st)
         IN  IF "symbol" \in DOMAIN opportunity /\ ~made.none
             THEN GenerateLoop(st, Tail(opportunities), Append(acc, made.rec))
             ELSE GenerateLoop(st, Tail(opportunities), acc)

\* Variant: the quality score without the bonus for the expected ROM.
AssessQualityNoRomBonus(rec) ==
    LET byConfidence == IF rec.confidence >= 8 * Scale THEN 10
                        ELSE IF rec.confidence <= 6 * Scale THEN -10 ELSE 0
        bySsr == IF rec.expected_ssr >= 5 * Scale THEN 5 ELSE 0
    IN  Max(0, Min(Scale, 80 + byConfidence + bySsr))

\* _assess_recommendation_quality, in hundredths.
AssessRecommendationQuality(rec) ==
    LET byConfidence == IF rec.confidence >= 8 * Scale THEN 10
                        ELSE IF rec.confidence <= 6 * Scale THEN -10 ELSE 0
        byRom == IF rec.expected_rom >= 10 * Scale THEN 5 ELSE 0
        bySsr == IF rec.expected_ssr >= 5 * Scale THEN 5 ELSE 0
    IN  Max(0, Min(Scale, 80 + byConfidence + byRom + bySsr))

\* _self_review: min(confidence * quality_score, 10.0), kept from 6.0 up.
QualityThreshold == 6
Reviewed(rec) ==
    [rec EXCEPT !.confidence =
        Min((rec.confidence * AssessRecommendationQuality(rec)) \div Scale, 10 * Scale)]

\* Variant: every reviewed recommendation kept, whatever its confidence.
RECURSIVE ReviewLoopKeepAll(_, _, _)
ReviewLoopKeepAll(recs, kept, scores) ==
    IF recs = <<>> THEN [recommendations |-> kept, confidence_scores |-> scores]
    ELSE ReviewLoopKeepAll(Tail(recs), Append(kept, Reviewed(Head(recs))),
                           DictPut(scores, Head(recs).symbol, Reviewed(Head(recs)).confidence))

RECURSIVE ReviewLoop(_, _, _)
ReviewLoop(recs, kept, scores) ==
    IF recs = <<>> THEN [recommendations |-> kept, confidence_scores |-> scores]
    ELSE LET rec == Reviewed(Head(recs))
         IN  IF rec.confidence >= QualityThreshold * Scale
             THEN ReviewLoop(Tail(recs), Append(kept, rec),
                             DictPut(scores, rec.symbol, rec.confidence))
             ELSE ReviewLoop(Tail(recs), kept, scores)

\* sorted(..., key=lambda r: (r.confidence, r.expected_rom), reverse=True):
\* stable, equal keys keep their order.
KeyGreater(a, b) ==
    \/ a.confidence > b.confidence
    \/ a.confidence = b.confidence /\ a.expected_rom > b.expected_rom

RECURSIVE InsertRanked(_, _)
InsertRanked(sorted, rec) ==
    IF sorted = <<>> THEN <<rec>>
    ELSE IF KeyGreater(rec, Head(sorted)) THEN <<rec>> \o sorted
         ELSE <<Head(sorted)>> \o InsertRanked(Tail(sorted), rec)

RECURSIVE SortedRanked(_, _)
SortedRanked(recs, acc) ==
    IF recs = <<>> THEN acc ELSE SortedRanked(Tail(recs), InsertRanked(acc, Head(recs)))

TopN == 5
\* Variant: the first five in the order they were generated.
RankUnsorted(recs) == Take(recs, TopN)
RankRecommendationsResult(recs) == Take(SortedRanked(recs, <<>>), TopN)

IdlePortfolio == [positions |-> <<>>, sector_exposure |-> <<>>, available_cash |-> 0]
IdleFilters == [d |-> EmptyDict, nonNumeric |-> {}]
NoOutcome == [returned |-> FALSE, raised |-> FALSE, error |-> "", recommendations |-> <<>>]

AgentInit ==
    /\ agPc = 0
    /\ state = NewState(IdlePortfolio, IdleFilters)
    /\ agOutcome = NoOutcome
    /\ mcpAnswers = <<>>
    /\ agRan = <<>>
    /\ agAtError = <<>>

\* find_opportunities(portfolio, filters), down to the call of the workflow.
FindOpportunities(portfolio, filters) ==
    /\ agPc = 0
    /\ state' = NewState(portfolio, filters)
    /\ agPc' = 1
    /\ agOutcome' = NoOutcome
    /\ mcpAnswers' = <<>>
    /\ agRan' = <<>>
    /\ agAtError' = <<>>
    /\ UNCHANGED <<logVars, concVars, runVars, scanVars, ctxVars, svcVars>>

\* One "state = await self._stage(state)" of
\* _execute_simple_recommendation_workflow: the next statement follows
\* whatever the stage left in state.error.
StageWith(name, newState, answers) ==
    /\ state' = newState
    /\ mcpAnswers' = answers
    /\ agPc' = agPc + 1
    /\ agRan' = Append(agRan, name)
    /\ agAtError' = IF agAtError = <<>> /\ newState.error.set
                    THEN << [state |-> newState, ran |-> Append(agRan, name)] >>
                    ELSE agAtError
    /\ UNCHANGED agOutcome
    /\ UNCHANGED <<logVars, concVars, runVars, scanVars, ctxVars, svcVars>>

Stage(name, newState) == StageWith(name, newState, mcpAnswers)

AnalyzePortfolio ==
    /\ agPc = 1
    /\ LET portfolio == state.portfolio
           found == << [type |-> "diversification",
                        sectors |-> IdentifyLowExposureSectors(portfolio.sector_exposure)],
                       [type |-> "risk_management",
                        positions |-> IdentifyHighRiskPositions(portfolio.positions)],
                       [type |-> "margin_utilization",
                        available_margin |-> portfolio.available_cash] >>
       IN  Stage("_analyze_portfolio",
                 [state EXCEPT !.opportunities = state.opportunities \o found])

ScanOpportunities(answers) ==
    /\ agPc = 2
    /\ StageWith("_scan_opportunities",
                 [state EXCEPT !.opportunities =
                     state.opportunities \o ScanLoop(state.scope_stocks, answers, 1)],
                 answers)

\* The symbols of the opportunities that have one.
Symbols(st) ==
    { st.opportunities[i].symbol :
        i \in { j \in 1..Len(st.opportunities) : "symbol" \in DOMAIN st.opportunities[j] } }

\* _analyze_market_sentiment: one analyze_sentiment per symbol, each answered
\* with an analysis or an exception.
AnalyzeMarketSentiment ==
    /\ agPc = 3
    /\ \E answers \in [Symbols(state) -> Analyses] :
         LET analysed == { symbol \in Symbols(state) : answers[symbol].present }
         IN  Stage("_analyze_market_sentiment",
                   [state EXCEPT !.market_analyses =
                       [symbol \in (DOMAIN state.market_analyses) \cup analysed |->
                           IF symbol \in analysed THEN answers[symbol]
                           ELSE state.market_analyses[symbol]]])

CalculateMetrics ==
    /\ agPc = 4
    /\ Stage("_calculate_metrics",
             [state EXCEPT !.opportunities =
                 MapSeq(LAMBDA opportunity : WithMetrics(state, opportunity),
                        state.opportunities)])

ApplyFilters ==
    /\ agPc = 5
    /\ LET done == FilterLoop(state.filters, state.opportunities, <<>>)
       IN  Stage("_apply_filters",
                 IF done.raised
                 THEN [state EXCEPT !.error = Error("Filter application failed")]
                 ELSE [state EXCEPT !.opportunities = done.kept])

GenerateRecommendations ==
    /\ agPc = 6
    /\ Stage("_generate_recommendations",
             [state EXCEPT !.recommendations =
                 GenerateLoop(state, state.opportunities, <<>>)])

SelfReview ==
    /\ agPc = 7
    /\ LET done == ReviewLoop(state.recommendations, <<>>, state.confidence_scores)
       IN  Stage("_self_review",
                 [state EXCEPT !.recommendations = done.recommendations,
                               !.confidence_scores = done.confidence_scores])

RankRecommendations ==
    /\ agPc = 8
    /\ Stage("_rank_recommendations",
             [state EXCEPT !.final_recommendations =
                 RankRecommendationsResult(state.recommendations)])

\* find_opportunities, after the workflow: raise on final_state.error, else
\* return final_state.final_recommendations.
FindOpportunitiesEnd ==
    /\ agPc = 9
    /\ agOutcome' = IF state.error.set
                    THEN [returned |-> FALSE, raised |-> TRUE,
                          error |-> state.error.msg, recommendations |-> <<>>]
                    ELSE [returned |-> TRUE, raised |-> FALSE, error |-> "",
                          recommendations |-> state.final_recommendations]
    /\ agPc' = 0
    /\ UNCHANGED <<state, mcpAnswers, agRan, agAtError>>
    /\ UNCHANGED <<logVars, concVars, runVars, scanVars, ctxVars, svcVars>>

AgentNext ==
    \/ \E portfolio \in Portfolios, filters \in FilterArgs :
           FindOpportunities(portfolio, filters)
    \/ AnalyzePortfolio
    \/ \E a1 \in ScanAnswers, a2 \in ScanAnswersShort : ScanOpportunities(<<a1, a2>>)
    \/ AnalyzeMarketSentiment
    \/ CalculateMetrics
    \/ ApplyFilters
    \/ GenerateRecommendations
    \/ SelfReview
    \/ RankRecommendations
    \/ FindOpportunitiesEnd

(***************************************************************************)
(* _rank_recommendations alone, on the lists of reviewed recommendations    *)
(* that longer option chains produce.                                      *)
(***************************************************************************)
Survivor(symbol, confidence, rom) ==
    [recommendation_type |-> "new trade", symbol |-> symbol, option_type |-> "CE",
     strike_price |-> 94000, confidence |-> confidence, expected_rom |-> rom,
     expected_ssr |-> 600]
Survivors ==
    { Survivor("TCS", 900, 1200), Survivor("RELIANCE", 900, 1200),
      Survivor("TCS", 900, 2000), Survivor("TCS", 630, 2000) }
SurvivorLists == UNION { [1..k -> Survivors] : k \in 0..MaxRecs }

RankInit ==
    /\ agPc = 8
    /\ \E recs \in SurvivorLists :
           state = [NewState(IdlePortfolio, IdleFilters) EXCEPT !.recommendations = recs]
    /\ agOutcome = NoOutcome
    /\ mcpAnswers = <<>>
    /\ agRan = << "_analyze_portfolio", "_scan_opportunities", "_analyze_market_sentiment",
                  "_calculate_metrics", "_apply_filters", "_generate_recommendations",
                  "_self_review" >>
    /\ agAtError = <<>>

RankNext == RankRecommendations \/ FindOpportunitiesEnd

(***************************************************************************)
(* opportunity_scanner.py: scan_opportunities.  Numbers are in hundredths. *)
(* Of a kept entry the fields symbol, premium, risk, open_interest, theta  *)
(* and details are modelled (strike, type and expiry are left out).        *)
(***************************************************************************)
\* DEFAULT_STOCK_LIST, cut to its first two symbols.
DefaultStockList == <<"RELIANCE", "TCS">>
\* DEFAULT_THRESHOLDS
DefaultThresholds ==
    [min_premium |-> 1000, max_risk |-> 5, min_liquidity |-> 100000, min_time_decay |-> 1]

Abs(x) == IF x < 0 THEN -x ELSE x

\* Variant: the thresholds without the one on the premium.
PassesThresholdsNoPremium(option, thresholds) ==
    /\ DictGet(option, "risk", 0) <= thresholds.max_risk
    /\ DictGet(option, "open_interest", 0) >= thresholds.min_liquidity
    /\ Abs(DictGet(option, "theta", 0)) >= thresholds.min_time_decay

\* The test of one option against the thresholds.
PassesThresholds(option, thresholds) ==
    /\ DictGet(option, "last_price", 0) >= thresholds.min_premium
    /\ DictGet(option, "risk", 0) <= thresholds.max_risk
    /\ DictGet(option, "open_interest", 0) >= thresholds.min_liquidity
    /\ Abs(DictGet(option, "theta", 0)) >= thresholds.min_time_decay

\* The record appended for a kept option.
ScannerOpportunity(symbol, option) ==
    [symbol |-> symbol,
     premium |-> DictGet(option, "last_price", 0),
     risk |-> DictGet(option, "risk", 0),
     open_interest |-> DictGet(option, "open_interest", 0),
     theta |-> DictGet(option, "theta", 0),
     details |-> option]

\* The inner loop: the kept options of one chain, in chain order.
ScannerChain(symbol, option_chain, thresholds) ==
    IF ~option_chain.hasData THEN <<>>
    ELSE MapSeq(LAMBDA option : ScannerOpportunity(symbol, option),
                SelectSeq(option_chain.data,
                          LAMBDA option : PassesThresholds(option, thresholds)))

RECURSIVE ScannerLoop(_, _, _, _)
ScannerLoop(stock_list, chains, thresholds, i) ==
    IF i > Len(stock_list) THEN <<>>
    ELSE ScannerChain(stock_list[i], chains[stock_list[i]], thresholds)
             \o ScannerLoop(stock_list, chains, thresholds, i + 1)

\* stock_list or DEFAULT_STOCK_LIST; thresholds or DEFAULT_THRESHOLDS (None
\* is [given |-> FALSE]).
EffectiveStockList(stock_list) == IF stock_list = <<>> THEN DefaultStockList ELSE stock_list
EffectiveThresholds(thresholds) ==
    IF thresholds.given THEN thresholds.d ELSE DefaultThresholds

\* The option chain entries the client answers with.
ScannerEntries ==
    { [last_price |-> 1500, risk |-> 3, open_interest |-> 200000, theta |-> -5],
      [last_price |-> 500, risk |-> 3, open_interest |-> 200000, theta |-> -5],
      [last_price |-> 1500, risk |-> 10, open_interest |-> 200000, theta |-> 5],
      [last_price |-> 1000, risk |-> 5, open_interest |-> 100000, theta |-> 1],
      [strike_price |-> 90000] }
NoChainData == [hasData |-> FALSE, data |-> <<>>]
ScannerChains ==
    {NoChainData}
        \cup { [hasData |-> TRUE, data |-> d] :
                 d \in UNION { [1..k -> ScannerEntries] : k \in 0..MaxEntries } }
ScannerChainsShort ==
    { NoChainData,
      [hasData |-> TRUE,
       data |-> << [last_price |-> 500, risk |-> 3, open_interest |-> 200000, theta |-> -5],
                   [last_price |-> 1500, risk |-> 3, open_interest |-> 200000,
                    theta |-> -5] >>] }
ScannerStockLists == { <<>>, <<"TCS">>, <<"TCS", "RELIANCE">> }
ScannerThresholds ==
    { [given |-> FALSE, d |-> DefaultThresholds],
      [given |-> TRUE,
       d |-> [min_premium |-> 0, max_risk |-> 5, min_liquidity |-> 0,
              min_time_decay |-> 0]] }

NoScanResult == [returned |-> FALSE, raised |-> FALSE, opportunities |-> <<>>]
NoScanArgs == [stock_list |-> <<>>, thresholds |-> [given |-> FALSE, d |-> DefaultThresholds],
               connected |-> TRUE,
               chains |-> [s \in {"TCS", "RELIANCE"} |-> NoChainData]]

ScannerIdle ==
    /\ scanArgs = NoScanArgs
    /\ scanResult = NoScanResult

\* The arguments of a call, whether connect() will succeed and what
\* get_option_chain will answer.
ScannerInit ==
    /\ \E stock_list \in ScannerStockLists, thresholds \in ScannerThresholds,
          connected \in BOOLEAN, c1 \in ScannerChains, c2 \in ScannerChainsShort :
           scanArgs = [stock_list |-> stock_list, thresholds |-> thresholds,
                       connected |-> connected,
                       chains |-> [s \in {"TCS", "RELIANCE"} |->
                                       IF s = "TCS" THEN c1 ELSE c2]]
    /\ scanResult = NoScanResult

\* scan_opportunities(stock_list, thresholds).  connect() swallows its own
\* failure; the first get_option_chain of a client without a session raises
\* out of call_tool, and the stock list is never empty.
ScannerScanOpportunities ==
    /\ ~scanResult.returned
    /\ ~scanResult.raised
    /\ scanResult' =
           IF ~scanArgs.connected
           THEN [returned |-> FALSE, raised |-> TRUE, opportunities |-> <<>>]
           ELSE [returned |-> TRUE, raised |-> FALSE,
                 opportunities |->
                     ScannerLoop(EffectiveStockList(scanArgs.stock_list), scanArgs.chains,
                                 EffectiveThresholds(scanArgs.thresholds), 1)]
    /\ UNCHANGED scanArgs
    /\ UNCHANGED <<logVars, concVars, runVars, agentVars, ctxVars, svcVars>>

ScannerNext == ScannerScanOpportunities

\* Context assembly not started.
CtxIdle ==
    /\ ctxPc = "idle"
    /\ ctxArgs = <<>>
    /\ context = EmptyDict
    /\ ctxCalls = <<>>

(***************************************************************************)
(* analyzer.py: get_full_context and the sentiment passes it runs.  A     *)
(* client call is kept by its tool, its subject and its outcome: "data",   *)
(* "error" (the placeholder the client returns for a failure it caught:    *)
(* {"error": ...} or "Error: ...") or "raised".  Of the bundle the         *)
(* portfolio and the per-symbol and per-sector sections are modelled.      *)
(***************************************************************************)
\* SECTOR_MAP; of a key written twice the dict literal keeps the later value.
SECTOR_MAP ==
    [symbol \in {"HDFCBANK", "ICICIBANK", "KOTAKBANK", "SBIN", "AXISBANK", "INDUSINDBK",
                 "BANKBARODA", "PNB", "ONGC", "COALINDIA", "NTPC", "BPCL", "POWERGRID",
                 "GAIL", "MARUTI", "TATAMOTORS", "EICHERMOT", "HEROMOTOCO", "M&M",
                 "BAJAJ-AUTO", "BAJFINANCE", "BAJAJFINSV", "HDFCLIFE", "SBILIFE", "TCS",
                 "INFY", "HCLTECH", "WIPRO", "TECHM"} |->
        CASE symbol \in {"TCS", "INFY", "HCLTECH", "WIPRO", "TECHM"} -> "IT"
          [] symbol \in {"BAJFINANCE", "BAJAJFINSV", "HDFCLIFE", "SBILIFE"} -> "NBFC"
          [] symbol \in {"MARUTI", "TATAMOTORS", "EICHERMOT", "HEROMOTOCO", "M&M",
                         "BAJAJ-AUTO"} -> "Auto"
          [] symbol \in {"SBIN", "ONGC", "COALINDIA", "NTPC", "BPCL", "POWERGRID",
                         "GAIL"} -> "PSU"
          [] OTHER -> "Banking"]

\* Variant: every symbol its own group.
SectorPerSymbol(symbol) == symbol

\* sector = self.SECTOR_MAP.get(symbol, "Other")
SectorOf(symbol) == DictGet(SECTOR_MAP, symbol, "Other")

\* sector_stocks after the grouping loop, as the list of its items in
\* insertion order.
RECURSIVE SectorStocks(_, _, _)
SectorStocks(scan_list, i, items) ==
    IF i > Len(scan_list) THEN items
    ELSE LET sector == SectorOf(scan_list[i])
             at == {k \in 1..Len(items) : items[k].sector = sector}
         IN  SectorStocks(scan_list, i + 1,
                 IF at = {} THEN Append(items, [sector |-> sector,
                                                stocks |-> <<scan_list[i]>>])
                 ELSE [k \in 1..Len(items) |->
                          IF k \in at
                          THEN [items[k] EXCEPT !.stocks = Append(@, scan_list[i])]
                          ELSE items[k]])

\* d[keys[i]] = values[i] for i = 1, 2, ... in turn.
RECURSIVE PutAll(_, _, _, _)
PutAll(d, keys, values, i) ==
    IF i > Len(keys) THEN d
    ELSE PutAll(DictPut(d, keys[i], values[i]), keys, values, i + 1)

\* One call of a client and how it ended.
ClientCall(tool, subject, outcome) == [tool |-> tool, subject |-> subject, outcome |-> outcome]

CtxSymbols == {"TCS", "ZOMATO"}
\* Two stocks of one sector around one the table does not have.
MixedScanList == <<"TCS", "ZOMATO", "INFY">>
ScanLists == UNION { [1..k -> CtxSymbols] : k \in 0..MaxScan } \cup {MixedScanList}
\* self.mcp_client: None after __init__, the bool that initialize() stores, a
\* client without a session, a connected client.
McpClients == {"None", "bool", "no_session", "session"}
\* self.llm_client: None after __init__, or an LLMClient.
LlmClients == {"None", "LLMClient"}
CallOutcomes == {"data", "error"}

\* What the bundle holds for a section that is not a fetch of a client.
Section(name) == [section |-> name]

\* get_full_context(scan_list) up to the loop over the scan list;
\* get_portfolio_data returns {} when its call raises.  The Greeks sections
\* are written only under "if 'net' in portfolio".
GetFullContext_Begin(scan_list, mcp, llm) ==
    /\ ctxPc = "idle"
    /\ ctxArgs' = [scan_list |-> scan_list, mcp |-> mcp, llm |-> llm]
    /\ \E outcome \in CallOutcomes, has_net \in BOOLEAN :
           /\ has_net => mcp = "session" /\ outcome = "data"
           /\ LET call == ClientCall("get_portfolio", "", IF mcp = "session" THEN outcome
                                                          ELSE "raised")
                  portfolio == IF mcp # "session" THEN EmptyDict
                               ELSE IF has_net THEN DictPut(call, "net", "positions")
                               ELSE call
                  base == [portfolio |-> portfolio,
                           margin_used |-> DictGet(portfolio, "margin_used", "None"),
                           margin_total |-> DictGet(portfolio, "margin_total", "None"),
                           news_india |-> Section("news_india"),
                           news_usa |-> Section("news_usa"),
                           user_news_links |-> Section("user_news_links"),
                           technical_indicators |-> EmptyDict,
                           option_chains |-> EmptyDict]
              IN  /\ ctxCalls' = <<call>>
                  /\ context' =
                         IF "net" \in DOMAIN portfolio
                         THEN DictPut(DictPut(base, "portfolio_greeks",
                                              Section("portfolio_greeks")),
                                      "per_position_greeks", Section("per_position_greeks"))
                         ELSE base
    /\ ctxPc' = "symbols"
    /\ UNCHANGED <<logVars, concVars, runVars, agentVars, scanVars, svcVars>>

\* The loop over the scan list: get_market_indicators and get_option_chain
\* of each symbol.  On anything but a connected client the first call raises.
GetFullContext_Symbols ==
    /\ ctxPc = "symbols"
    /\ LET scan_list == ctxArgs.scan_list
           n == Len(scan_list)
       IN  IF n > 0 /\ ctxArgs.mcp # "session"
           THEN /\ ctxCalls' = Append(ctxCalls,
                                      ClientCall("get_market_indicators", scan_list[1],
                                                 "raised"))
                /\ ctxPc' = "raised"
                /\ UNCHANGED context
           ELSE \E ind \in [1..n -> CallOutcomes], chain \in [1..n -> CallOutcomes] :
                    LET indicators == [i \in 1..n |->
                            ClientCall("get_market_indicators", scan_list[i], ind[i])]
                        chains == [i \in 1..n |->
                            ClientCall("get_option_chain", scan_list[i], chain[i])]
                    IN  /\ ctxCalls' = ctxCalls \o
                               [j \in 1..(2 * n) |->
                                   IF j % 2 = 1 THEN indicators[(j + 1) \div 2]
                                   ELSE chains[j \div 2]]
                        /\ context' =
                               [context EXCEPT
                                   !.technical_indicators =
                                       PutAll(EmptyDict, scan_list, indicators, 1),
                                   !.option_chains = PutAll(EmptyDict, scan_list, chains, 1)]
                        /\ ctxPc' = "news"
    /\ UNCHANGED ctxArgs
    /\ UNCHANGED <<logVars, concVars, runVars, agentVars, scanVars, svcVars>>

\* context['news_sentiment'] = await self.analyze_news_sentiment_for_stocks(scan_list):
\* one generate_response per symbol.
AnalyzeNewsSentimentForStocks ==
    /\ ctxPc = "news"
    /\ LET scan_list == ctxArgs.scan_list
           n == Len(scan_list)
       IN  IF n > 0 /\ ctxArgs.llm = "None"
           THEN /\ ctxCalls' = Append(ctxCalls,
                                      ClientCall("news_sentiment", scan_list[1], "raised"))
                /\ ctxPc' = "raised"
                /\ UNCHANGED context
           ELSE \E out \in [1..n -> CallOutcomes] :
                    LET calls == [i \in 1..n |->
                                     ClientCall("news_sentiment", scan_list[i], out[i])]
                    IN  /\ ctxCalls' = ctxCalls \o calls
                        /\ context' = DictPut(context, "news_sentiment",
                                              PutAll(EmptyDict, scan_list, calls, 1))
                        /\ ctxPc' = "sector"
    /\ UNCHANGED ctxArgs
    /\ UNCHANGED <<logVars, concVars, runVars, agentVars, scanVars, svcVars>>

\* context['sector_sentiment'] = await self.analyze_sector_sentiment(scan_list):
\* one generate_response per item of sector_stocks, its prompt naming the
\* sector and its stocks.
AnalyzeSectorSentiment ==
    /\ ctxPc = "sector"
    /\ LET items == SectorStocks(ctxArgs.scan_list, 1, <<>>)
           n == Len(items)
       IN  IF n > 0 /\ ctxArgs.llm = "None"
           THEN /\ ctxCalls' = Append(ctxCalls,
                                      [tool |-> "sector_sentiment",
                                       subject |-> items[1].sector,
                                       outcome |-> "raised", stocks |-> items[1].stocks])
                /\ ctxPc' = "raised"
                /\ UNCHANGED context
           ELSE \E out \in [1..n -> CallOutcomes] :
                    LET calls == [i \in 1..n |->
                                     [tool |-> "sector_sentiment",
                                      subject |-> items[i].sector,
                                      outcome |-> out[i], stocks |-> items[i].stocks]]
                    IN  /\ ctxCalls' = ctxCalls \o calls
                        /\ context' =
                               DictPut(context, "sector_sentiment",
                                       PutAll(EmptyDict, [i \in 1..n |-> items[i].sector],
                                              [i \in 1..n |->
                                                  ClientCall("sector_sentiment",
                                                             items[i].sector, out[i])], 1))
                        /\ ctxPc' = "quotes"
    /\ UNCHANGED ctxArgs
    /\ UNCHANGED <<logVars, concVars, runVars, agentVars, scanVars, svcVars>>

\* context['quotes'] = {symbol: await self.mcp_client.get_quote(symbol) ...}
\* and return context.
GetFullContext_Quotes ==
    /\ ctxPc = "quotes"
    /\ LET scan_list == ctxArgs.scan_list
           n == Len(scan_list)
       IN  IF n > 0 /\ ctxArgs.mcp # "session"
           THEN /\ ctxCalls' = Append(ctxCalls,
                                      ClientCall("get_quote", scan_list[1], "raised"))
                /\ ctxPc' = "raised"
                /\ UNCHANGED context
           ELSE \E out \in [1..n -> CallOutcomes] :
                    LET calls == [i \in 1..n |->
                                     ClientCall("get_quote", scan_list[i], out[i])]
                    IN  /\ ctxCalls' = ctxCalls \o calls
                        /\ context' =
                               DictPut(DictPut(context, "recent_feedback",
                                               Section("recent_feedback")),
                                       "quotes", PutAll(EmptyDict, scan_list, calls, 1))
                        /\ ctxPc' = "returned"
    /\ UNCHANGED ctxArgs
    /\ UNCHANGED <<logVars, concVars, runVars, agentVars, scanVars, svcVars>>

\* The sections the prompt of generate_full_context_recommendations reads,
\* each as context['...'].
PromptSections ==
    {"news_india", "news_usa", "user_news_links", "news_sentiment", "sector_sentiment",
     "portfolio", "portfolio_greeks", "per_position_greeks", "margin_used",
     "margin_total", "technical_indicators", "option_chains", "quotes",
     "recent_feedback"}

\* generate_full_context_recommendations after get_full_context returned:
\* the f-string is evaluated (a section that is not in the bundle is a
\* KeyError) and handed to self.llm_client.generate_response.
GenerateFullContextRecommendations ==
    /\ ctxPc = "returned"
    /\ IF ~(PromptSections \subseteq DOMAIN context)
       THEN /\ ctxPc' = "key_error"
            /\ UNCHANGED ctxCalls
       ELSE IF ctxArgs.llm = "None"
       THEN /\ ctxPc' = "llm_raised"
            /\ ctxCalls' = Append(ctxCalls, ClientCall("generate_response", "", "raised"))
       ELSE \E outcome \in CallOutcomes :
                /\ ctxPc' = "sent"
                /\ ctxCalls' = Append(ctxCalls,
                                      ClientCall("generate_response", "", outcome))
    /\ UNCHANGED <<ctxArgs, context>>
    /\ UNCHANGED <<logVars, concVars, runVars, agentVars, scanVars, svcVars>>

CtxNext ==
    \/ \E scan_list \in ScanLists, mcp \in McpClients, llm \in LlmClients :
           GetFullContext_Begin(scan_list, mcp, llm)
    \/ GetFullContext_Symbols
    \/ AnalyzeNewsSentimentForStocks
    \/ AnalyzeSectorSentiment
    \/ GetFullContext_Quotes
    \/ GenerateFullContextRecommendations

(***************************************************************************)
(* services/portfolio_service.py.  Amounts are whole numbers, the ratios   *)
(* and averages computed from them are in hundredths (Scale); the inputs   *)
(* of the ratios are chosen so that the quotient has no further digits.    *)
(* A symbol is the sequence of its characters.                             *)
(***************************************************************************)
\* Variant: the fraction, not the percentage.
PS_CalculateRomFraction(premium_collected, margin_used) ==
    IF margin_used <= 0 THEN 0 ELSE (premium_collected * Scale) \div margin_used

\* _calculate_rom
PS_CalculateRom(premium_collected, margin_used) ==
    IF margin_used <= 0 THEN 0 ELSE Pct(premium_collected, margin_used)

\* _calculate_ssr
PS_CalculateSsr(spot_price, strike_price) ==
    IF spot_price <= 0 THEN 0 ELSE Pct(spot_price - strike_price, spot_price)

\* _calculate_roi
PS_CalculateRoi(premium_collected, margin_used) ==
    IF margin_used <= 0 THEN 0 ELSE Pct(premium_collected, margin_used)

\* _calculate_reward_risk_ratio
PS_CalculateRewardRiskRatio(premium_collected, risk_indicator) ==
    IF risk_indicator <= 0 THEN 0 ELSE (premium_collected * Scale) \div risk_indicator

\* Variant: 3 is already medium risk.
ClassifyRiskGroupStrict(risk_indicator) ==
    IF risk_indicator < 3 THEN "Low Risk"
    ELSE IF risk_indicator <= 6 THEN "Medium Risk"
    ELSE "High Risk"

\* _classify_risk_group
ClassifyRiskGroup(risk_indicator) ==
    IF risk_indicator <= 3 THEN "Low Risk"
    ELSE IF risk_indicator <= 6 THEN "Medium Risk"
    ELSE "High Risk"

\* _calculate_margin_efficiency
PS_CalculateMarginEfficiency(premium_collected, margin_used) ==
    IF margin_used <= 0 THEN 0 ELSE (premium_collected * Scale) \div margin_used

\* int(x) of a value in hundredths that is not negative.
PyInt(x) == x \div Scale

\* sector = position.symbol[:3] if len(position.symbol) >= 3 else "Other"
PositionSector(position) ==
    IF Len(position.symbol) >= 3 THEN Take(position.symbol, 3)
    ELSE <<"O", "t", "h", "e", "r">>

\* The keys of sector_data in insertion order.
RECURSIVE SectorDataKeys(_, _, _)
SectorDataKeys(positions, i, keys) ==
    IF i > Len(positions) THEN keys
    ELSE SectorDataKeys(positions, i + 1,
             IF \E k \in 1..Len(keys) : keys[k] = PositionSector(positions[i]) THEN keys
             ELSE Append(keys, PositionSector(positions[i])))

\* _analyze_sectors: sum(...) / len(...) of each list, and the group of
\* int(average_risk_indicator).
AnalyzeSectors(portfolio) ==
    LET keys == SectorDataKeys(portfolio.positions, 1, <<>>)
    IN  [k \in 1..Len(keys) |->
            LET data == SelectSeq(portfolio.positions,
                                  LAMBDA position : PositionSector(position) = keys[k])
                n == Len(data)
                total_margin == SumSeq([i \in 1..n |-> data[i].margin_used])
                average_risk_indicator ==
                    (SumSeq([i \in 1..n |-> data[i].risk_indicator]) * Scale) \div n
            IN  [sector |-> keys[k],
                 total_margin |-> total_margin,
                 position_count |-> n,
                 exposure_percentage |->
                     IF portfolio.total_margin > 0
                     THEN Pct(total_margin, portfolio.total_margin) ELSE 0,
                 total_premium_collected |->
                     SumSeq([i \in 1..n |-> data[i].premium_collected]),
                 average_rom |-> SumSeq([i \in 1..n |-> data[i].rom]) \div n,
                 average_ssr |-> SumSeq([i \in 1..n |-> data[i].ssr]) \div n,
                 average_risk_indicator |-> average_risk_indicator,
                 risk_group |-> ClassifyRiskGroup(PyInt(average_risk_indicator))]]

\* The PositionAnalysis of one position.
AnalyzePosition(position) ==
    [position |-> position,
     roi_percentage |-> PS_CalculateRoi(position.premium_collected, position.margin_used),
     reward_risk_ratio |->
         PS_CalculateRewardRiskRatio(position.premium_collected, position.risk_indicator),
     risk_group |-> ClassifyRiskGroup(position.risk_indicator),
     margin_efficiency |->
         PS_CalculateMarginEfficiency(position.premium_collected, position.margin_used)]

\* _calculate_risk_distribution
CalculateRiskDistribution(position_analyses) ==
    [group \in {"Low Risk", "Medium Risk", "High Risk"} |->
        Cardinality({i \in 1..Len(position_analyses) :
                        position_analyses[i].risk_group = group})]

\* Positions as the Position model admits them (risk_indicator in 1..10, rom
\* and ssr in [0, 100]); margin_used has no constraint.
Positions ==
    { [symbol |-> <<"T", "C", "S">>, margin_used |-> 6000, premium_collected |-> 600,
       rom |-> 10 * Scale, ssr |-> 5 * Scale, risk_indicator |-> 6],
      [symbol |-> <<"T", "C", "S", "P", "E">>, margin_used |-> 2800,
       premium_collected |-> 140, rom |-> 5 * Scale, ssr |-> 8 * Scale,
       risk_indicator |-> 7],
      [symbol |-> <<"L", "T">>, margin_used |-> 0, premium_collected |-> 90,
       rom |-> 0, ssr |-> 12 * Scale, risk_indicator |-> 3],
      [symbol |-> <<"I", "N", "F", "Y">>, margin_used |-> 1000,
       premium_collected |-> 300, rom |-> 30 * Scale, ssr |-> 2 * Scale,
       risk_indicator |-> 10] }

\* The arguments the ratio helpers are called with directly.
RatioCalls ==
    ({"rom", "margin_efficiency"} \X {5000} \X {50000, 0, -100})
        \cup ({"ssr"} \X {1000, 0, -5} \X {950})
        \cup ({"reward_risk_ratio"} \X {6000} \X {6, 0, -1})

NoPortfolioAnalysis ==
    [status |-> "none", position_analyses |-> <<>>, sector_analyses |-> <<>>,
     risk_distribution |-> <<>>]
NoRatio == [f |-> "none", a |-> 0, b |-> 0, value |-> 0]

\* The service with the portfolio its client will answer with, or raise.
PortfolioServiceInit ==
    \E positions \in UNION { [1..k -> Positions] : k \in 0..MaxPositions },
       total_margin \in {0, 10000}, raises \in BOOLEAN :
        pf = [portfolio |-> [positions |-> positions, total_margin |-> total_margin],
              raises |-> raises, analysis |-> NoPortfolioAnalysis, ratio |-> NoRatio]

\* get_portfolio_analysis()
GetPortfolioAnalysis ==
    /\ pf.analysis.status = "none"
    /\ pf' = [pf EXCEPT !.analysis =
                 IF pf.raises THEN [NoPortfolioAnalysis EXCEPT !.status = "raised"]
                 ELSE LET position_analyses ==
                              [i \in 1..Len(pf.portfolio.positions) |->
                                  AnalyzePosition(pf.portfolio.positions[i])]
                      IN  [status |-> "returned",
                           position_analyses |-> position_analyses,
                           sector_analyses |-> AnalyzeSectors(pf.portfolio),
                           risk_distribution |->
                               CalculateRiskDistribution(position_analyses)]]
    /\ UNCHANGED <<mc, snap, svc>>
    /\ UNCHANGED <<logVars, concVars, runVars, agentVars, scanVars, ctxVars>>

\* One of _calculate_rom, _calculate_ssr, _calculate_reward_risk_ratio,
\* _calculate_margin_efficiency called with (a, b).
CalculateRatio(f, a, b) ==
    /\ pf.ratio.f = "none"
    /\ pf' = [pf EXCEPT !.ratio =
                 [f |-> f, a |-> a, b |-> b,
                  value |-> CASE f = "rom" -> PS_CalculateRom(a, b)
                              [] f = "ssr" -> PS_CalculateSsr(a, b)
                              [] f = "reward_risk_ratio" -> PS_CalculateRewardRiskRatio(a, b)
                              [] f = "margin_efficiency" ->
                                     PS_CalculateMarginEfficiency(a, b)]]
    /\ UNCHANGED <<mc, snap, svc>>
    /\ UNCHANGED <<logVars, concVars, runVars, agentVars, scanVars, ctxVars>>

PortfolioServiceNext ==
    \/ GetPortfolioAnalysis
    \/ \E call \in RatioCalls : CalculateRatio(call[1], call[2], call[3])

(***************************************************************************)
(* services/mcp_client.py: MCPClient.  Time is counted in seconds; the     *)
(* data of a tool invocation that succeeded is the number of that          *)
(* invocation, None is 0.  A get_* method is identified by its cache key.  *)
(***************************************************************************)
NoneData == 0

\* Variant: the last failure is not raised.
RECURSIVE MakeMcpCallNoRaise(_, _, _)
MakeMcpCallNoRaise(script, max_retries, attempt) ==
    IF attempt >= max_retries
    THEN [kind |-> "returned", fresh |-> FALSE, attempts |-> attempt]
    ELSE IF script[attempt + 1]
         THEN [kind |-> "returned", fresh |-> TRUE, attempts |-> attempt + 1]
         ELSE MakeMcpCallNoRaise(script, max_retries, attempt + 1)

\* _make_mcp_call of a connected client from `attempt` on: script[i] tells
\* whether the i-th invocation of the tool succeeds.  When the loop body
\* never runs the function ends without a return statement.
RECURSIVE MakeMcpCall(_, _, _)
MakeMcpCall(script, max_retries, attempt) ==
    IF attempt >= max_retries
    THEN [kind |-> "returned", fresh |-> FALSE, attempts |-> attempt]
    ELSE IF script[attempt + 1]
         THEN [kind |-> "returned", fresh |-> TRUE, attempts |-> attempt + 1]
         ELSE IF attempt = max_retries - 1
              THEN [kind |-> "raised", fresh |-> FALSE, attempts |-> attempt + 1]
              ELSE MakeMcpCall(script, max_retries, attempt + 1)

\* Variant: an entry is still valid when its age equals its ttl.
IsCacheValidInclusive(cache, key, now) ==
    key \in DOMAIN cache /\ now - cache[key].timestamp <= cache[key].ttl

\* _is_cache_valid
IsCacheValid(cache, key, now) ==
    key \in DOMAIN cache /\ now - cache[key].timestamp < cache[key].ttl

\* _cache_data
CacheData(cache, key, data, now, ttl) ==
    DictPut(cache, key, [data |-> data, timestamp |-> now, ttl |-> ttl])

CacheKeys == {"portfolio_data", "quote_TCS"}
NoCall == [flip |-> FALSE, key |-> "", kind |-> "none", data |-> NoneData, attempts |-> 0,
           script |-> <<>>]

\* What the server does to the invocations of one call: `failures`
\* invocations fail and the next one, if the client makes it, succeeds.
ServerScript(failures, max_retries) ==
    [i \in 1..Min(failures + 1, Max(max_retries, 0)) |-> i > failures]

\* An MCPClient with its settings; connect() has been called or not.
McInit ==
    \E max_retries \in -1..MaxRetries, cache_ttl \in 0..MaxTtl, retry_delay \in {0, 1},
       connected \in BOOLEAN :
        mc = [settings |-> [max_retries |-> max_retries, cache_ttl |-> cache_ttl,
                            retry_delay |-> retry_delay],
              connected |-> connected, cache |-> EmptyDict, now |-> 0, invocations |-> 0,
              last |-> NoCall]

\* A get_* method: the cached data if the entry is valid, else
\* _make_mcp_call, _cache_data and the data; any exception leaves as
\* MCPConnectionError.  The client sleeps retry_delay after each failed
\* attempt but the last.
McGet(key, failures) ==
    /\ mc # <<>>
    /\ failures <= Max(mc.settings.max_retries, 0)
    /\ LET script == ServerScript(failures, mc.settings.max_retries) IN
       IF IsCacheValid(mc.cache, key, mc.now)
       THEN mc' = [mc EXCEPT !.last = [flip |-> ~mc.last.flip, key |-> key,
                                       kind |-> "returned", data |-> mc.cache[key].data,
                                       attempts |-> 0, script |-> script]]
       ELSE IF ~mc.connected
       THEN mc' = [mc EXCEPT !.last = [flip |-> ~mc.last.flip, key |-> key,
                                       kind |-> "raised", data |-> NoneData,
                                       attempts |-> 0, script |-> script]]
       ELSE LET r == MakeMcpCall(script, mc.settings.max_retries, 0)
                slept == Max(r.attempts - 1, 0) * mc.settings.retry_delay
                data == IF r.fresh THEN mc.invocations + r.attempts ELSE NoneData
            IN  /\ mc.invocations + r.attempts <= MaxInvocations
                /\ mc.now + slept <= MaxTime
                /\ mc' = [mc EXCEPT
                             !.invocations = @ + r.attempts,
                             !.now = @ + slept,
                             !.cache = IF r.kind = "returned"
                                       THEN CacheData(@, key, data, mc.now + slept,
                                                      mc.settings.cache_ttl)
                                       ELSE @,
                             !.last = [flip |-> ~mc.last.flip, key |-> key,
                                       kind |-> r.kind, data |-> data,
                                       attempts |-> r.attempts, script |-> script]]
    /\ UNCHANGED <<pf, snap, svc>>
    /\ UNCHANGED <<logVars, concVars, runVars, agentVars, scanVars, ctxVars>>

\* clear_cache()
McClearCache ==
    /\ mc # <<>>
    /\ mc.cache # EmptyDict
    /\ mc' = [mc EXCEPT !.cache = EmptyDict]
    /\ UNCHANGED <<pf, snap, svc>>
    /\ UNCHANGED <<logVars, concVars, runVars, agentVars, scanVars, ctxVars>>

\* A second passes.
McTick ==
    /\ mc # <<>>
    /\ mc.now < MaxTime
    /\ mc' = [mc EXCEPT !.now = @ + 1]
    /\ UNCHANGED <<pf, snap, svc>>
    /\ UNCHANGED <<logVars, concVars, runVars, agentVars, scanVars, ctxVars>>

McNext ==
    \/ \E key \in CacheKeys, failures \in 0..MaxRetries : McGet(key, failures)
    \/ McClearCache
    \/ McTick

(***************************************************************************)
(* Specifications.                                                         *)
(***************************************************************************)
vars == <<logVars, concVars, runVars, agentVars, scanVars, ctxVars, svcVars>>

(***************************************************************************)
(* app.py: log_portfolio_changes.  A snapshot is the portfolio dict of an  *)
(* analysis; st.session_state['last_portfolio'] is the one kept.  Each     *)
(* log_user_action is one log_event, one line appended to the log; the     *)
(* events of the last call are kept in call order.                         *)
(***************************************************************************)
\* st.session_state.get('last_portfolio') before the first snapshot: None.
NoSnapshot == [none |-> TRUE]

PositionValues ==
    {[tradingsymbol |-> "TCS", quantity |-> 1], [tradingsymbol |-> "TCS", quantity |-> 2],
     [tradingsymbol |-> "INFY", quantity |-> 1], [tradingsymbol |-> "SBIN", quantity |-> 1]}
\* Portfolios with a position list (repeated symbols included) and the
\* results without one.
Snapshots ==
    {[net |-> net, margin_used |-> 0] :
        net \in UNION { [1..k -> PositionValues] : k \in 0..MaxNet }}
    \cup {[margin_used |-> 0], [error |-> "timeout"]}

\* {p['tradingsymbol']: p for p in net} as the list of its items: a key
\* stays where it was first inserted and keeps the last value written.
RECURSIVE PositionsBySymbol(_, _, _)
PositionsBySymbol(net, i, items) ==
    IF i > Len(net) THEN items
    ELSE LET symbol == net[i].tradingsymbol
             at == {k \in 1..Len(items) : items[k].key = symbol}
         IN  PositionsBySymbol(net, i + 1,
                 IF at = {} THEN Append(items, [key |-> symbol, value |-> net[i]])
                 ELSE [k \in 1..Len(items) |->
                          IF k \in at THEN [items[k] EXCEPT !.value = net[i]]
                          ELSE items[k]])

\* symbol in positions
HasSymbol(positions, symbol) == \E k \in 1..Len(positions) : positions[k].key = symbol

\* logging_utils.log_user_action(action, details): the event it logs.
LogUserAction(action, details) ==
    [event_type |-> IF action = "buy" THEN "user_action:buy" ELSE "user_action:sell",
     data |-> details]

\* Variant: a buy for every symbol of the new snapshot.
DetectBuysAll(last_positions, new_positions) ==
    [k \in 1..Len(new_positions) |->
        LogUserAction("buy", [symbol |-> new_positions[k].key,
                              details |-> new_positions[k].value])]

\* The loop "Detect buys".
DetectBuys(last_positions, new_positions) ==
    LET bought == SelectSeq(new_positions,
                            LAMBDA item : ~HasSymbol(last_positions, item.key))
    IN  [k \in 1..Len(bought) |->
            LogUserAction("buy", [symbol |-> bought[k].key, details |-> bought[k].value])]

\* The loop "Detect sells".
DetectSells(last_positions, new_positions) ==
    LET sold == SelectSeq(last_positions,
                          LAMBDA item : ~HasSymbol(new_positions, item.key))
    IN  [k \in 1..Len(sold) |->
            LogUserAction("sell", [symbol |-> sold[k].key, details |-> sold[k].value])]

SnapInit ==
    snap = [last_portfolio |-> NoSnapshot, previous |-> NoSnapshot,
            new_portfolio |-> NoSnapshot, logged |-> <<>>, called |-> FALSE]

\* log_portfolio_changes(new_portfolio)
LogPortfolioChanges(new_portfolio) ==
    /\ LET last == snap.last_portfolio
       IN  snap' =
               [last_portfolio |-> new_portfolio,
                previous |-> last,
                new_portfolio |-> new_portfolio,
                logged |->
                    IF \/ "none" \in DOMAIN last
                       \/ "net" \notin DOMAIN last
                       \/ "net" \notin DOMAIN new_portfolio
                    THEN <<>>
                    ELSE LET last_positions == PositionsBySymbol(last.net, 1, <<>>)
                             new_positions == PositionsBySymbol(new_portfolio.net, 1, <<>>)
                         IN  DetectBuys(last_positions, new_positions)
                             \o DetectSells(last_positions, new_positions),
                called |-> TRUE]
    /\ UNCHANGED <<pf, mc, svc>>
    /\ UNCHANGED <<logVars, concVars, runVars, agentVars, scanVars, ctxVars>>

SnapNext == \E new_portfolio \in Snapshots : LogPortfolioChanges(new_portfolio)

(***************************************************************************)
(* services/analysis_service.py and services/recommendation_service.py:    *)
(* the result cache.  Both services keep one dict of results and ONE       *)
(* timestamp for the whole dict.  Time is in seconds; a result records the *)
(* key it was computed for and when (its analysis_date).                   *)
(***************************************************************************)
\* self._cache_ttl of the AnalysisService and of the RecommendationService.
AnalysisCacheTtl == 300
RecommendationCacheTtl == 600
\* Seconds in a day: timedelta keeps days and seconds apart.
DaySeconds == 86400
\* How far the clock moves between two calls.
ClockSteps == {200, DaySeconds}
\* self._cache_timestamp is None
NoTimestamp == -1

ServiceKeys(service) ==
    IF service = "AnalysisService" THEN {"stock_analysis_TCS", "stock_analysis_INFY"}
    ELSE {"recommendations_default", "recommendations_filtered"}

\* cache_age.seconds: the seconds field of a timedelta, the days left out.
TimedeltaSeconds(age) == age % DaySeconds

\* _is_cache_valid(key)
SvcIsCacheValid(s, key) ==
    IF key \notin DOMAIN s.cache \/ s.cache_timestamp = NoTimestamp THEN FALSE
    ELSE TimedeltaSeconds(s.now - s.cache_timestamp) < s.cache_ttl

\* _cache_data(key, data)
SvcCacheData(s, key, data) ==
    [s EXCEPT !.cache = DictPut(@, key, data), !.cache_timestamp = s.now]

NoRequest == [key |-> "", from_cache |-> FALSE, raised |-> FALSE, data |-> <<>>]

SvcInit ==
    \E service \in {"AnalysisService", "RecommendationService"} :
        svc = [service |-> service,
               cache_ttl |-> IF service = "AnalysisService" THEN AnalysisCacheTtl
                             ELSE RecommendationCacheTtl,
               cache |-> EmptyDict, cache_timestamp |-> NoTimestamp,
               now |-> 0, ticks |-> 0, last |-> NoRequest]

\* get_stock_analysis(symbol) / get_trade_recommendations(filters) and the
\* methods like them: the cached result if _is_cache_valid, else a result
\* computed now and cached, or the error the computation raised.
SvcGet(key, raises) ==
    /\ key \in ServiceKeys(svc.service)
    /\ IF SvcIsCacheValid(svc, key)
       THEN svc' = [svc EXCEPT !.last = [key |-> key, from_cache |-> TRUE,
                                         raised |-> FALSE, data |-> svc.cache[key]]]
       ELSE IF raises
       THEN svc' = [svc EXCEPT !.last = [key |-> key, from_cache |-> FALSE,
                                         raised |-> TRUE, data |-> <<>>]]
       ELSE LET data == [key |-> key, analysis_date |-> svc.now]
            IN  svc' = [SvcCacheData(svc, key, data) EXCEPT
                           !.last = [key |-> key, from_cache |-> FALSE,
                                     raised |-> FALSE, data |-> data]]
    /\ UNCHANGED <<pf, mc, snap>>
    /\ UNCHANGED <<logVars, concVars, runVars, agentVars, scanVars, ctxVars>>

\* clear_cache()
SvcClearCache ==
    /\ svc' = [svc EXCEPT !.cache = EmptyDict, !.cache_timestamp = NoTimestamp,
                          !.last = NoRequest]
    /\ UNCHANGED <<pf, mc, snap>>
    /\ UNCHANGED <<logVars, concVars, runVars, agentVars, scanVars, ctxVars>>

\* Time passes between two calls.
SvcTick(step) ==
    /\ svc.ticks < MaxSvcTicks
    /\ svc' = [svc EXCEPT !.now = @ + step, !.ticks = @ + 1, !.last = NoRequest]
    /\ UNCHANGED <<pf, mc, snap>>
    /\ UNCHANGED <<logVars, concVars, runVars, agentVars, scanVars, ctxVars>>

SvcNext ==
    \/ \E key \in ServiceKeys("AnalysisService") \cup ServiceKeys("RecommendationService"),
          raises \in BOOLEAN : SvcGet(key, raises)
    \/ SvcClearCache
    \/ \E step \in ClockSteps : SvcTick(step)

\* The services not in use.
PfIdle == pf = <<>>
McIdle == mc = <<>>
SnapIdle == snap = <<>>
SvcIdle == svc = <<>>
ServicesIdle == PfIdle /\ McIdle /\ SnapIdle /\ SvcIdle

Init == LogInit /\ ConcInit /\ RunInit /\ AgentInit /\ ScannerIdle /\ CtxIdle /\ ServicesIdle

\* The event log and the pattern miner, one caller at a time.
Next == LogNext
Spec == Init /\ [][Next]_vars

\* The event log under concurrent appenders.
SpecConc == Init /\ [][ConcNext]_vars

\* One session of the opportunity scanner.
SpecRun == Init /\ [][RunNext]_vars

\* One caller of the recommendation agent.
SpecAgent == Init /\ [][AgentNext]_vars

\* The ranking stage on its own.
InitRank == LogInit /\ ConcInit /\ RunInit /\ RankInit /\ ScannerIdle /\ CtxIdle /\ ServicesIdle
SpecRank == InitRank /\ [][RankNext]_vars

\* One assembly of the context bundle.
SpecContext == Init /\ [][CtxNext]_vars

\* The PortfolioService on one portfolio.
InitPortfolioService == LogInit /\ ConcInit /\ RunInit /\ AgentInit /\ ScannerIdle /\ CtxIdle /\ PortfolioServiceInit /\ McIdle /\ SnapIdle /\ SvcIdle
SpecPortfolioService == InitPortfolioService /\ [][PortfolioServiceNext]_vars

\* The market-data client of the services.
InitMcpClient == LogInit /\ ConcInit /\ RunInit /\ AgentInit /\ ScannerIdle /\ CtxIdle /\ PfIdle /\ McInit /\ SnapIdle /\ SvcIdle
SpecMcpClient == InitMcpClient /\ [][McNext]_vars

\* The portfolio snapshots of one session.
InitPortfolioChanges == LogInit /\ ConcInit /\ RunInit /\ AgentInit /\ ScannerIdle /\ CtxIdle /\ PfIdle /\ McIdle /\ SnapInit /\ SvcIdle
SpecPortfolioChanges == InitPortfolioChanges /\ [][SnapNext]_vars

\* The result cache of a service.
InitServiceCache == LogInit /\ ConcInit /\ RunInit /\ AgentInit /\ ScannerIdle /\ CtxIdle /\ PfIdle /\ McIdle /\ SnapIdle /\ SvcInit
SpecServiceCache == InitServiceCache /\ [][SvcNext]_vars

\* One call of the opportunity scanner.
InitScanner == LogInit /\ ConcInit /\ RunInit /\ AgentInit /\ ScannerInit /\ CtxIdle /\ ServicesIdle
SpecScanner == InitScanner /\ [][ScannerNext]_vars

(***************************************************************************)
(* Properties of the event log and of the pattern miner.                   *)
(***************************************************************************)
\* The feedback events logged since the last clear, in log order.
LoggedFeedback == SelectSeq(appended, LAMBDA e : e.event_type \in FeedbackTypes)
\* The k most recent of them.
LastK(seq, k) == SubSeq(seq, Len(seq) - Min(k, Len(seq)) + 1, Len(seq))
\* The events an analysis took into account: the total_feedback most recent ones.
Considered == LastK(LoggedFeedback, patterns.total_feedback)
OutcomeOf(e) == IF e.event_type = "user_action:accepted" THEN "accepted" ELSE "rejected"
Outcomes == {"accepted", "rejected"}
CountOf(seq, Test(_)) == Len(SelectSeq(seq, Test))

\* C1: a read that follows the appends returns one event per append, in append
\* order, each with the event_type and data that were passed to log_event (so the
\* last element is the last append); with no log file it returns the empty
\* sequence and does not raise.
C1_RoundTrip ==
    lastOp = "read" =>
        /\ readResult.ok
        /\ Len(readResult.events) = Len(appended)
        /\ \A i \in 1..Len(appended) :
               /\ readResult.events[i].event_type = appended[i].event_type
               /\ readResult.events[i].data = appended[i].data
        /\ (~logExists => readResult.events = <<>>)

C1_Witness ==
    /\ lastOp = "read"
    /\ Len(appended) = 2
    /\ appended[1].data # appended[2].data
    /\ "risk" \in DOMAIN appended[2].data

\* C2: a step that is not clear_log_history keeps the file and every event
\* already written: the file before is a prefix of the file after, and what a
\* read returns before the step is a prefix of what a read returns after it.
C2_AppendOnly ==
    [][lastOp' # "clear" =>
          /\ (logExists => logExists')
          /\ IsPrefix(logFile, logFile')
          /\ IsPrefix(ReadLogHistory(logExists, logFile).events,
                      ReadLogHistory(logExists', logFile').events)]_vars

C2_Witness ==
    /\ lastOp = "read"
    /\ Len(readResult.events) = 3

\* C3: a read skips the blank lines and the lines that do not parse, does not
\* raise, and returns the events of all well-formed lines in file order.
WellFormedEvents(file) ==
    LET lines == SelectSeq(SplitLines(file),
                     LAMBDA l : Strip(l) # <<>> /\ JsonLoads(l).ok)
    IN  [i \in 1..Len(lines) |-> JsonLoads(lines[i]).value]

C3_SkipsMalformed ==
    lastOp = "read" =>
        /\ readResult.ok
        /\ readResult.events = WellFormedEvents(logFile)

\* C4: once the concurrent appenders have returned, the line of each of them is
\* one whole line of the file: none is interleaved with another, none is lost.
C4_AtomicAppend ==
    (\A a \in Appenders : wpc[a] = "done") =>
        \A a \in Appenders :
            \E i \in 1..Len(SplitLines(logFile)) : SplitLines(logFile)[i] = wrec[a]

\* C5: in a scanner run, feedback_patterns is mined from the log as it was when
\* the scan was started, and the run logs an event only after it has mined.
C5_MinedBeforeLogged ==
    /\ runLogged > 0 => runPc = "generated"
    /\ runPc \in {"mined", "context", "generated"} =>
           runPatterns = AnalyzeFeedbackPatterns(runStartLog, RunNRecent)

C5_Witness ==
    /\ runPc = "generated"
    /\ runLogged = 1
    /\ runPatterns.total_feedback = 2
    /\ Len(LoggedFeedback) = 3

\* C10: once a stage of a recommendation run has set state.error, no later
\* stage executes and the run-state stays as that stage left it.
C10_FailFast ==
    agAtError # <<>> => /\ state = agAtError[1].state
                        /\ agRan = agAtError[1].ran

\* C6: analyze_feedback_patterns(n_recent) reports total_feedback =
\* min(n_recent, number of feedback events in the log), for every n_recent >= 0.
C6_TotalIsMin ==
    lastOp = "analyze" => patterns.total_feedback = Min(nRecent, Len(LoggedFeedback))

\* C7: no symbol's accepted and rejected counts sum to more than n_recent.
C7_CountsAtMostN ==
    lastOp = "analyze" =>
        \A s \in DOMAIN patterns.symbol_stats :
            patterns.symbol_stats[s].accepted + patterns.symbol_stats[s].rejected <= nRecent

\* C8: avg_risk of an outcome is None exactly when no considered event of that
\* outcome carries a risk (a risk of 0 is carried), and is otherwise the mean of
\* the risks of the considered events of that outcome.
C8_AvgRisk ==
    lastOp = "analyze" =>
        \A o \in Outcomes :
            LET carrying == SelectSeq(Considered,
                                LAMBDA e : OutcomeOf(e) = o /\ "risk" \in DOMAIN e.data)
                risks == [i \in 1..Len(carrying) |-> carrying[i].data.risk]
                avg == patterns.avg_risk[o]
            IN  /\ avg.isNone <=> carrying = <<>>
                /\ ~avg.isNone =>
                       /\ avg.len > 0
                       /\ avg.sum * Len(risks) = SumSeq(risks) * avg.len

C8_Witness ==
    /\ lastOp = "analyze"
    /\ ~patterns.avg_risk["accepted"].isNone
    /\ patterns.avg_risk["accepted"].len = 2
    /\ patterns.avg_risk["accepted"].sum = 4
    /\ patterns.avg_risk["rejected"].isNone
    /\ nRecent = 2
    /\ patterns.total_feedback = 2
    /\ Len(LoggedFeedback) = 3

\* C9: symbol_stats[s][o] is the number of considered events of outcome o whose
\* payload symbol is s ("UNKNOWN" without a symbol), option_type_stats likewise,
\* and both tables sum to total_feedback.
RECURSIVE SumCounts(_, _)
SumCounts(stats, keys) ==
    IF keys = {} THEN 0
    ELSE LET k == CHOOSE x \in keys : TRUE
         IN  stats[k].accepted + stats[k].rejected + SumCounts(stats, keys \ {k})

StatsMatch(stats, field, names) ==
    /\ \A s \in names, o \in Outcomes :
           DictGet(stats, s, ZeroCount)[o] =
               CountOf(Considered,
                   LAMBDA e : OutcomeOf(e) = o /\ DictGet(e.data, field, "UNKNOWN") = s)
    /\ DOMAIN stats \subseteq names
    /\ SumCounts(stats, DOMAIN stats) = patterns.total_feedback

C9_Counts ==
    lastOp = "analyze" =>
        /\ StatsMatch(patterns.symbol_stats, "symbol", {"RELIANCE", "TCS", "UNKNOWN"})
        /\ StatsMatch(patterns.option_type_stats, "option_type", {"CE", "PE", "UNKNOWN"})

C9_Witness ==
    /\ lastOp = "analyze"
    /\ nRecent = 2
    /\ patterns.total_feedback = 2
    /\ Len(LoggedFeedback) = 3
    /\ "UNKNOWN" \in DOMAIN patterns.symbol_stats
    /\ "TCS" \in DOMAIN patterns.symbol_stats
    /\ patterns.symbol_stats["TCS"].rejected = 1
    /\ patterns.option_type_stats["PE"].accepted = 1

(***************************************************************************)
(* Properties of the recommendation run.                                   *)
(***************************************************************************)
\* The opportunities of the run that can become a recommendation.
Candidates == SelectSeq(state.opportunities,
                        LAMBDA o : "symbol" \in DOMAIN o /\ o.option.isDict)

\* C11: find_opportunities never raises: a run in which a stage failed is
\* returned to the caller, with what it produced and the error string.
C11_NeverRaises ==
    /\ ~agOutcome.raised
    /\ (agPc = 0 /\ agRan # <<>>) =>
           /\ agOutcome.returned
           /\ agOutcome.recommendations = state.final_recommendations
           /\ (state.error.set => agOutcome.error = state.error.msg)

\* C12: in every state a run can end in, failed runs included, each element of
\* final_recommendations has a confidence of at least 6.0.
C12_FinalAtLeastThreshold ==
    \A i \in 1..Len(state.final_recommendations) :
        state.final_recommendations[i].confidence >= 6 * Scale

C12_Witness ==
    /\ agPc = 9
    /\ state.error.set
    /\ Len(state.final_recommendations) = 1
    /\ Len(Candidates) = 2

\* C13: _self_review gives a recommendation with confidence c, expected ROM r
\* and expected SSR s the multiplier
\* m = clamp(0.8 + (0.1 if c >= 8) - (0.1 if c <= 6) + (0.05 if r >= 10)
\*           + (0.05 if s >= 5), 0, 1),
\* sets its confidence to min(c * m, 10) and keeps it iff that is >= 6.0;
\* c = 9, r = 12, s = 6 gives m = 1.0 and a kept confidence of 9.
Multiplier(c, r, s) ==
    LET sum == 80 + (IF c >= 800 THEN 10 ELSE 0) - (IF c <= 600 THEN 10 ELSE 0)
                  + (IF r >= 1000 THEN 5 ELSE 0) + (IF s >= 500 THEN 5 ELSE 0)
    IN  IF sum < 0 THEN 0 ELSE IF sum > 100 THEN 100 ELSE sum
Adjusted(rec) ==
    LET product == (rec.confidence * Multiplier(rec.confidence, rec.expected_rom,
                                                rec.expected_ssr)) \div 100
    IN  IF product < 1000 THEN product ELSE 1000
ExpectedReview(recs) ==
    SelectSeq([i \in 1..Len(recs) |-> [recs[i] EXCEPT !.confidence = Adjusted(recs[i])]],
              LAMBDA rec : rec.confidence >= 600)

C13_SelfReview ==
    [][(agPc = 7 /\ agPc' = 8) =>
          /\ state'.recommendations = ExpectedReview(state.recommendations)
          /\ \A i \in 1..Len(state.recommendations) :
                 LET rec == state.recommendations[i]
                 IN  (rec.confidence = 900 /\ rec.expected_rom = 1200
                                           /\ rec.expected_ssr = 600)
                         => \E j \in 1..Len(state'.recommendations) :
                                state'.recommendations[j] = rec]_vars

C13_Witness ==
    /\ agPc = 8
    /\ Len(state.recommendations) = 2
    /\ Len(Candidates) = 2
    /\ state.recommendations[1].confidence = 900
    /\ state.recommendations[1].expected_rom = 1200
    /\ state.recommendations[1].expected_ssr = 600
    /\ state.recommendations[2].confidence = 630

\* C14: after _rank_recommendations, final_recommendations is the first
\* min(5, k) of the k reviewed recommendations in descending order of
\* (confidence, expected_rom): at most 5, only reviewed ones, and none left
\* out has a strictly greater key than one that is in.
Occurrences(seq, x) == Cardinality({ i \in 1..Len(seq) : seq[i] = x })
Outranks(a, b) ==
    \/ a.confidence > b.confidence
    \/ (a.confidence = b.confidence /\ a.expected_rom > b.expected_rom)
Elements(seq) == { seq[i] : i \in 1..Len(seq) }

C14_Ranked ==
    agPc = 9 =>
        LET final == state.final_recommendations
            reviewed == state.recommendations
        IN  /\ Len(final) = (IF Len(reviewed) < 5 THEN Len(reviewed) ELSE 5)
            /\ \A x \in Elements(final) : Occurrences(final, x) <= Occurrences(reviewed, x)
            /\ \A i \in 1..Len(final), j \in 1..Len(final) :
                   i < j => ~Outranks(final[j], final[i])
            /\ \A x \in Elements(reviewed) :
                   Occurrences(final, x) < Occurrences(reviewed, x)
                       => \A y \in Elements(final) : ~Outranks(x, y)

C14_Witness ==
    /\ agPc = 9
    /\ Len(state.recommendations) = 6
    /\ state.recommendations[1].confidence = 630
    /\ state.recommendations[6].expected_rom = 2000
    /\ state.recommendations[6].confidence = 900
    /\ Len(state.final_recommendations) = 5
    /\ state.final_recommendations[1] = state.recommendations[6]
    /\ state.final_recommendations[5].confidence = 630

\* The sentiment and put adjustments of C15, from the run-state.
SentimentDelta(symbol) ==
    IF symbol \in DOMAIN state.market_analyses
    THEN LET sentiment == state.market_analyses[symbol].short_term_sentiment
         IN  IF sentiment \in {"Cautiously Negative", "Moderately Negative",
                               "Strongly Negative"} THEN 2
             ELSE IF sentiment \in {"Cautiously Positive", "Moderately Positive",
                                    "Strongly Positive"} THEN -1
             ELSE 0
    ELSE 0
PutDelta(option) ==
    IF option.isDict /\ "option_type" \in DOMAIN option.d /\ option.d.option_type = "PE"
    THEN 1 ELSE 0
Clamp(x, lo, hi) == IF x < lo THEN lo ELSE IF x > hi THEN hi ELSE x
Scanned == SelectSeq(state.opportunities, LAMBDA o : "option" \in DOMAIN o)

\* C15: after _calculate_metrics every opportunity has
\* risk_indicator = clamp(5 + d + p, 1, 10), d by the sentiment of its symbol
\* and p = 1 for a put; it is an integer in 1..10.
C15_RiskFormula ==
    agPc \in 5..9 =>
        \A i \in 1..Len(Scanned) :
            /\ Scanned[i].risk_indicator \in 1..10
            /\ Scanned[i].risk_indicator =
                   Clamp(5 + SentimentDelta(Scanned[i].symbol) + PutDelta(Scanned[i].option),
                         1, 10)

\* C15, amended: the formula holds for every opportunity whose option is a
\* dict; an option that is not one gets the default risk_indicator 5.
C15_RiskFormulaOfDicts ==
    agPc \in 5..9 =>
        \A i \in 1..Len(Scanned) :
            /\ Scanned[i].risk_indicator \in 1..10
            /\ Scanned[i].risk_indicator =
                   IF Scanned[i].option.isDict
                   THEN Clamp(5 + SentimentDelta(Scanned[i].symbol)
                                + PutDelta(Scanned[i].option), 1, 10)
                   ELSE 5

C15_Witness ==
    /\ agPc = 5
    /\ Len(Scanned) = 3
    /\ Scanned[1].risk_indicator = 8
    /\ Scanned[2].risk_indicator = 5
    /\ ~Scanned[2].option.isDict
    /\ Scanned[3].risk_indicator = 4

\* C16: a generated recommendation is a swap trade iff the portfolio holds a
\* position in its symbol with risk_indicator >= 8, otherwise a new trade;
\* no hedge trade is produced.
HighRiskHeld(symbol) ==
    \E i \in 1..Len(state.portfolio.positions) :
        /\ state.portfolio.positions[i].symbol = symbol
        /\ state.portfolio.positions[i].risk_indicator >= 8

C16_RecommendationType ==
    \A rec \in Elements(state.recommendations) \cup Elements(state.final_recommendations) :
        /\ rec.recommendation_type = "swap trade" <=> HighRiskHeld(rec.symbol)
        /\ rec.recommendation_type # "swap trade" => rec.recommendation_type = "new trade"
        /\ rec.recommendation_type # "hedge trade"

C16_Witness ==
    /\ agPc = 7
    /\ Len(state.recommendations) = 2
    /\ state.recommendations[1].symbol = "TCS"
    /\ state.recommendations[1].recommendation_type = "swap trade"
    /\ state.recommendations[2].symbol = "RELIANCE"
    /\ state.recommendations[2].recommendation_type = "new trade"

\* C17: after _scan_opportunities each scope stock has one record per entry of
\* the first 10 entries of its chain, in chain order; a stock whose chain or
\* quote could not be fetched has none, the error stays unset, and the records
\* of the other stocks are what their own answers give.
RecordsOf(symbol) ==
    SelectSeq(state.opportunities, LAMBDA o : "symbol" \in DOMAIN o /\ o.symbol = symbol)

C17_ScanCap ==
    agPc = 3 =>
        /\ ~state.error.set
        /\ \A k \in 1..Len(state.scope_stocks) :
               LET records == RecordsOf(state.scope_stocks[k])
                   answer == mcpAnswers[k]
               IN  /\ Len(records) <= 10
                   /\ ~answer.ok => records = <<>>
                   /\ answer.ok =>
                          /\ Len(records) = (IF Len(answer.chain) < 10
                                             THEN Len(answer.chain) ELSE 10)
                          /\ \A i \in 1..Len(records) :
                                 /\ records[i].option = answer.chain[i]
                                 /\ records[i].quote = answer.quote

C17_Witness ==
    /\ agPc = 3
    /\ mcpAnswers[1].ok
    /\ Len(mcpAnswers[1].chain) = 11
    /\ ~mcpAnswers[2].ok
    /\ Len(RecordsOf("TCS")) = 10
    /\ Len(RecordsOf("RELIANCE")) = 0

(***************************************************************************)
(* Properties of the opportunity scanner.                                  *)
(***************************************************************************)
\* The entries scan_opportunities went through, each with its symbol, in
\* the order of the stock list and of the chains.
RECURSIVE EntriesFrom(_, _)
EntriesFrom(stock_list, i) ==
    IF i > Len(stock_list) THEN <<>>
    ELSE LET chain == scanArgs.chains[stock_list[i]]
         IN  [k \in 1..(IF chain.hasData THEN Len(chain.data) ELSE 0) |->
                 [symbol |-> stock_list[i], entry |-> chain.data[k]]]
                 \o EntriesFrom(stock_list, i + 1)
ScannedEntries ==
    EntriesFrom(IF scanArgs.stock_list = <<>> THEN <<"RELIANCE", "TCS">>
                ELSE scanArgs.stock_list, 1)
UsedThresholds ==
    IF scanArgs.thresholds.given THEN scanArgs.thresholds.d
    ELSE [min_premium |-> 1000, max_risk |-> 5, min_liquidity |-> 100000,
          min_time_decay |-> 1]
FieldOrZero(entry, field) == IF field \in DOMAIN entry THEN entry[field] ELSE 0
Keep(entry) ==
    /\ FieldOrZero(entry, "last_price") >= UsedThresholds.min_premium
    /\ FieldOrZero(entry, "risk") <= UsedThresholds.max_risk
    /\ FieldOrZero(entry, "open_interest") >= UsedThresholds.min_liquidity
    /\ (FieldOrZero(entry, "theta") >= UsedThresholds.min_time_decay
        \/ -FieldOrZero(entry, "theta") >= UsedThresholds.min_time_decay)

\* C18: the scanner keeps an entry iff premium >= min_premium, risk <=
\* max_risk, open_interest >= min_liquidity and abs(theta) >= min_time_decay,
\* a missing field counting as 0; the candidates are in input order; no
\* entries give no candidates; an entry below min_premium is dropped even if
\* every other threshold passes.
C18_FilterPredicate ==
    scanResult.returned =>
        LET kept == SelectSeq(ScannedEntries, LAMBDA e : Keep(e.entry))
            out == scanResult.opportunities
        IN  /\ Len(out) = Len(kept)
            /\ \A i \in 1..Len(kept) :
                   /\ out[i].symbol = kept[i].symbol
                   /\ out[i].details = kept[i].entry
                   /\ out[i].premium = FieldOrZero(kept[i].entry, "last_price")
            /\ (ScannedEntries = <<>> => out = <<>>)
            /\ \A i \in 1..Len(out) : out[i].premium >= UsedThresholds.min_premium

C18_Witness ==
    /\ scanResult.returned
    /\ ~scanArgs.thresholds.given
    /\ Len(ScannedEntries) = 4
    /\ FieldOrZero(ScannedEntries[1].entry, "last_price") = 500
    /\ FieldOrZero(ScannedEntries[1].entry, "risk") = 3
    /\ FieldOrZero(ScannedEntries[1].entry, "open_interest") = 200000
    /\ Len(scanResult.opportunities) = 2
    /\ scanResult.opportunities[1].symbol = "TCS"
    /\ scanResult.opportunities[2].symbol = "RELIANCE"

(***************************************************************************)
(* Properties of the context assembly.                                     *)
(***************************************************************************)
PerSymbolTools ==
    {"get_market_indicators", "get_option_chain", "news_sentiment", "get_quote"}
\* The outcome of the last call of a tool for a symbol.
LastOutcome(tool, symbol) ==
    LET at == {i \in 1..Len(ctxCalls) :
                  ctxCalls[i].tool = tool /\ ctxCalls[i].subject = symbol}
    IN  ctxCalls[CHOOSE i \in at : \A j \in at : j <= i].outcome
SlotOf(tool) ==
    CASE tool = "get_market_indicators" -> context.technical_indicators
      [] tool = "get_option_chain" -> context.option_chains
      [] tool = "news_sentiment" -> context.news_sentiment
      [] tool = "get_quote" -> context.quotes
ScanSymbols == {ctxArgs.scan_list[i] : i \in 1..Len(ctxArgs.scan_list)}
FetchFailed ==
    \E i \in 1..Len(ctxCalls) :
        ctxCalls[i].tool \in PerSymbolTools /\ ctxCalls[i].outcome # "data"

\* C19: when a per-symbol fetch (indicators, option chain, quote or
\* sentiment) fails during context assembly, the assembly is not aborted;
\* the bundle it returns has, for every symbol and section, what the fetch
\* of that symbol gave: the placeholder where it failed, the data elsewhere.
C19_PartialFailure ==
    FetchFailed =>
        /\ ctxPc # "raised"
        /\ ctxPc = "returned" =>
               \A tool \in PerSymbolTools : \A symbol \in ScanSymbols :
                   /\ symbol \in DOMAIN SlotOf(tool)
                   /\ SlotOf(tool)[symbol].subject = symbol
                   /\ SlotOf(tool)[symbol].outcome = LastOutcome(tool, symbol)

\* The sector calls of the assembly, in order.
SectorCalls == SelectSeq(ctxCalls, LAMBDA c : c.tool = "sector_sentiment")
ScannedSectors ==
    {IF symbol \in DOMAIN SECTOR_MAP THEN SECTOR_MAP[symbol] ELSE "Other" :
        symbol \in ScanSymbols}

\* C20: the sector pass makes one LLM call per distinct sector of the scan
\* list (a symbol that is not in the sector table counts under "Other"),
\* its result has one entry per distinct sector, and the stocks named in a
\* sector's call are the scanned symbols of that sector, in scan order.
C20_OneCallPerSector ==
    ctxPc \in {"quotes", "returned", "sent", "key_error", "llm_raised"} =>
        /\ Len(SectorCalls) = Cardinality(ScannedSectors)
        /\ {SectorCalls[i].subject : i \in 1..Len(SectorCalls)} = ScannedSectors
        /\ DOMAIN context.sector_sentiment = ScannedSectors
        /\ \A i \in 1..Len(SectorCalls) :
               SectorCalls[i].stocks =
                   SelectSeq(ctxArgs.scan_list,
                             LAMBDA symbol :
                                 (IF symbol \in DOMAIN SECTOR_MAP THEN SECTOR_MAP[symbol]
                                  ELSE "Other") = SectorCalls[i].subject)

C20_Witness ==
    /\ ctxPc = "returned"
    /\ ctxArgs.scan_list = <<"TCS", "ZOMATO", "INFY">>
    /\ Len(SectorCalls) = 2
    /\ SectorCalls[1].subject = "IT"
    /\ SectorCalls[1].stocks = <<"TCS", "INFY">>
    /\ SectorCalls[2].subject = "Other"
    /\ SectorCalls[2].stocks = <<"ZOMATO">>
    /\ DOMAIN context.sector_sentiment = {"IT", "Other"}

(***************************************************************************)
(* Properties of the PortfolioService.                                     *)
(***************************************************************************)
\* The risk indicators of the positions of a sector, and the integers
\* nearest to their average (two when the average is halfway).
SectorRisks(sector) ==
    LET ps == SelectSeq(pf.portfolio.positions,
                        LAMBDA p : (IF Len(p.symbol) >= 3 THEN SubSeq(p.symbol, 1, 3)
                                    ELSE <<"O", "t", "h", "e", "r">>) = sector)
    IN  [i \in 1..Len(ps) |-> ps[i].risk_indicator]
RoundedAverage(xs) ==
    {r \in 0..10 : \A q \in 0..10 :
        Abs(r * Len(xs) - SumSeq(xs)) <= Abs(q * Len(xs) - SumSeq(xs))}
RiskGroup(r) ==
    IF r \in 1..3 THEN "Low Risk" ELSE IF r \in 4..6 THEN "Medium Risk" ELSE "High Risk"

\* C21: the risk group of a sector is riskGroup of the average risk
\* indicator of the sector's positions rounded to the nearest integer.
C21_SectorRiskGroup ==
    pf.analysis.status = "returned" =>
        \A k \in 1..Len(pf.analysis.sector_analyses) :
            LET a == pf.analysis.sector_analyses[k]
            IN  a.risk_group \in {RiskGroup(r) : r \in RoundedAverage(SectorRisks(a.sector))}

\* C22: every risk indicator in 1..10 has exactly one label, Low Risk for
\* 1-3, Medium Risk for 4-6, High Risk for 7-10; every position is counted
\* under the label of its risk indicator and the three counts of the risk
\* distribution sum to the number of positions.
C22_RiskPartition ==
    /\ \A r \in 1..10 :
           ClassifyRiskGroup(r) = (IF r <= 3 THEN "Low Risk"
                                   ELSE IF r <= 6 THEN "Medium Risk" ELSE "High Risk")
    /\ pf.analysis.status = "returned" =>
           LET d == pf.analysis.risk_distribution
               ps == pf.portfolio.positions
           IN  /\ DOMAIN d = {"Low Risk", "Medium Risk", "High Risk"}
               /\ d["Low Risk"] + d["Medium Risk"] + d["High Risk"] = Len(ps)
               /\ \A g \in DOMAIN d :
                      d[g] = Cardinality({i \in 1..Len(ps) :
                                             RiskGroup(ps[i].risk_indicator) = g})

C22_Witness ==
    /\ pf.analysis.status = "returned"
    /\ Len(pf.portfolio.positions) = 3
    /\ pf.analysis.risk_distribution["Low Risk"] = 1
    /\ pf.analysis.risk_distribution["Medium Risk"] = 1
    /\ pf.analysis.risk_distribution["High Risk"] = 1

FirstSuccess(script) ==
    IF \E i \in 1..Len(script) : script[i]
    THEN CHOOSE i \in 1..Len(script) : script[i] /\ \A j \in 1..(i - 1) : ~script[j]
    ELSE 0

EntryValid(m, key) ==
    key \in DOMAIN m.cache /\ m.now - m.cache[key].timestamp < m.settings.cache_ttl

C30_NeverAbsent ==
    mc # <<>> =>
        /\ mc.last.kind = "returned" => mc.last.data # NoneData
        /\ \A key \in DOMAIN mc.cache : mc.cache[key].data # NoneData

(***************************************************************************)
(* Ranges of the recommendations of a run.                                 *)
(***************************************************************************)
InRange(rec) ==
    /\ 0 <= rec.confidence /\ rec.confidence <= 1000
    /\ 0 <= rec.expected_rom /\ rec.expected_rom <= 10000
    /\ 0 <= rec.expected_ssr /\ rec.expected_ssr <= 10000
OutOfRange(opportunity) ==
    \/ FieldOrZero(opportunity, "rom") < 0 \/ FieldOrZero(opportunity, "rom") > 10000
    \/ FieldOrZero(opportunity, "ssr") < 0 \/ FieldOrZero(opportunity, "ssr") > 10000

\* C25: every recommendation in the run-state has confidence in [0, 10]
\* and expected_rom and expected_ssr in [0, 100] (hundredths here); a
\* candidate with a value out of range gives no recommendation; the
\* self-review leaves no confidence higher than it was.
C25_Ranges ==
    /\ [](/\ \A i \in 1..Len(state.recommendations) : InRange(state.recommendations[i])
          /\ \A i \in 1..Len(state.final_recommendations) :
                 InRange(state.final_recommendations[i]))
    /\ [][/\ (agPc = 6 /\ agPc' = 7) =>
                 Len(state'.recommendations)
                     <= Len(SelectSeq(state.opportunities, LAMBDA o : ~OutOfRange(o)))
          /\ (agPc = 7 /\ agPc' = 8) =>
                 \A i \in 1..Len(state'.recommendations) :
                     \E j \in 1..Len(state.recommendations) :
                         /\ state.recommendations[j].symbol = state'.recommendations[i].symbol
                         /\ state.recommendations[j].strike_price
                                = state'.recommendations[i].strike_price
                         /\ state'.recommendations[i].confidence
                                <= state.recommendations[j].confidence
         ]_vars

\* A candidate out of range was dropped and a reviewed one had its
\* confidence lowered.
C25_Witness ==
    /\ agPc = 8
    /\ \E i \in 1..Len(state.opportunities) : OutOfRange(state.opportunities[i])
    /\ Len(state.recommendations) >= 1
    /\ \E i \in 1..Len(state.recommendations) : state.recommendations[i].confidence < 700

(***************************************************************************)
(* Properties of the full-context recommendation run.                      *)
(***************************************************************************)
\* The portfolio fetch failed or its result has no position list.
NoPositionList == "net" \notin DOMAIN context.portfolio

\* C27: a portfolio fetch that failed or gave no position list does not
\* abort the full-context generation: the bundle get_full_context returns
\* has every section the prompt reads, the Greeks sections included, and
\* the prompt is built and handed to the LLM client.
C27_PromptSent ==
    (ctxPc \in {"returned", "sent", "key_error"} /\ NoPositionList
         /\ ctxArgs.llm = "LLMClient") =>
        /\ PromptSections \subseteq DOMAIN context
        /\ ctxPc # "key_error"

(***************************************************************************)
(* Properties of the portfolio snapshots.                                  *)
(***************************************************************************)
\* The symbols of the position list of a snapshot.
SnapshotSymbols(portfolio) ==
    {portfolio.net[i].tradingsymbol : i \in 1..Len(portfolio.net)}
\* How many events of a type the last call logged for a symbol.
LoggedCount(event_type, symbol) ==
    Cardinality({i \in 1..Len(snap.logged) :
                    /\ snap.logged[i].event_type = event_type
                    /\ snap.logged[i].data.symbol = symbol})

\* C28: for two consecutive snapshots that both have a position list,
\* log_portfolio_changes logs exactly one user_action:buy for each symbol
\* that is in the new snapshot and not in the previous one, exactly one
\* user_action:sell for each symbol that is in the previous one and not in
\* the new one, and nothing for a symbol in both; and after every call,
\* the first one and those with a snapshot without a position list
\* included, the stored last snapshot is the new one.
C28_PortfolioChanges ==
    snap.called =>
        /\ snap.last_portfolio = snap.new_portfolio
        /\ ("net" \in DOMAIN snap.previous /\ "net" \in DOMAIN snap.new_portfolio) =>
               LET before == SnapshotSymbols(snap.previous)
                   after == SnapshotSymbols(snap.new_portfolio)
               IN  /\ \A symbol \in before \cup after :
                          /\ LoggedCount("user_action:buy", symbol) =
                                 IF symbol \in after \ before THEN 1 ELSE 0
                          /\ LoggedCount("user_action:sell", symbol) =
                                 IF symbol \in before \ after THEN 1 ELSE 0
                   /\ Len(snap.logged) =
                          Cardinality(after \ before) + Cardinality(before \ after)

C28_Witness ==
    /\ snap.called
    /\ "net" \in DOMAIN snap.previous /\ "net" \in DOMAIN snap.new_portfolio
    /\ SnapshotSymbols(snap.previous) = {"TCS", "INFY"}
    /\ snap.new_portfolio.net = <<[tradingsymbol |-> "SBIN", quantity |-> 1],
                                  [tradingsymbol |-> "TCS", quantity |-> 2]>>
    /\ Len(snap.logged) = 2
    /\ snap.logged[1].event_type = "user_action:buy"
    /\ snap.logged[1].data.symbol = "SBIN"
    /\ snap.logged[2].event_type = "user_action:sell"
    /\ snap.logged[2].data.symbol = "INFY"

(***************************************************************************)
(* Properties of the result cache of the services.                         *)
(***************************************************************************)
\* C29: a result that AnalysisService or RecommendationService returns
\* from its cache for a key was stored under that key less than the
\* service's cache TTL (300 s / 600 s) before the request, whatever the
\* requests for other keys in between.
C29_NeverStale ==
    svc.last.from_cache =>
        /\ svc.last.data.key = svc.last.key
        /\ svc.now - svc.last.data.analysis_date < svc.cache_ttl

====
